---- MODULE Spec2Model ----
(***************************************************************************)
(* Model of the simulation engine of the smart-farm backend:               *)
(*   backend/services/data_simulator.py  (MalaysianFarmSimulator)          *)
(*   backend/services/crop_simulator.py  (CropGrowthSimulator)             *)
(*                                                                         *)
(* Numbers.  Python floats are modelled by exact rationals <<num, den>>    *)
(* (den > 0, lowest terms).  Sensor values, optimal bands and crop         *)
(* modifiers are held in tenths (28.0 C is 280); a ratio of two values of  *)
(* the same unit is unaffected by that scaling.  Time is counted in half   *)
(* days (12 h) from 1 January 00:00 of a non-leap year, so that the whole  *)
(* days of a timedelta (timedelta.days, a floor) differ from the elapsed   *)
(* time.                                                                   *)
(***************************************************************************)
EXTENDS Integers, Sequences, FiniteSets, TLC

VARIABLES
    now,             \* datetime.now(), in half days
    season,          \* outcome of the last get_current_season call
    sensor_data,     \* the window handed to calculate_growth_rate
    crop_type,       \* the crop type handed to calculate_growth_rate
    growth,          \* outcome of the last calculate_growth_rate call
    equipment_list,  \* the equipment list handed to simulate_equipment_alerts
    last_call,       \* outcome of the last simulate_equipment_alerts call
    prev_call,       \* outcome of the simulate_equipment_alerts call before that
    next_uuid,       \* the next value uuid.uuid4() hands out
    equipment,       \* outcome of the last generate_equipment_data call
    crop,            \* outcome of the last generate_crop_data call
    random_draws,    \* the draws random hands to the next generate_complete_farm calls
    farm,            \* outcome of the last generate_complete_farm call
    weather,         \* outcome of the last generate_weather_data call
    forecast,        \* outcome of the last generate_weather_forecast call
    soil,            \* outcome of the last generate_soil_data call
    advanced,        \* outcome of the last update_crop_progress call
    farm_file,       \* the farm document FarmService keeps
    sensor_file,     \* the sensor readings FarmService keeps, oldest first
    alerts_file,     \* the alerts FarmService keeps, oldest first
    readings_made,   \* how many sensor readings have been generated
    alerts_made,     \* how many alerts have been written to the alerts file
    requests,        \* how many requests that write have been handled
    response,        \* the response to the last request
    wall_clock,      \* the time of day datetime.now() reads, in seconds
    live,            \* the live simulation loop of LiveDataService
    alert_checks,    \* the times at which the loop ran check_alerts
    weather_updates, \* the times at which the loop ran update_weather_data
    sockets,         \* the state of every websocket
    active_connections, \* ConnectionManager.active_connections
    broadcasts       \* the calls of ConnectionManager.broadcast

\* the outcomes of the calls of the deriving and generating operations
call_vars == <<season, sensor_data, crop_type, growth, equipment_list, last_call,
               prev_call, equipment, crop>>

farm_vars == <<random_draws, farm>>
weather_vars == <<weather, forecast>>
sample_vars == <<soil, advanced>>
store_vars == <<farm_file, sensor_file, alerts_file, readings_made, alerts_made, requests,
                response>>

loop_vars == <<wall_clock, live, alert_checks, weather_updates>>

socket_vars == <<sockets, active_connections, broadcasts>>

\* the state of the background tasks and the connections of the service
service_vars == <<loop_vars, socket_vars>>

\* the state of the operations built on the generators
rest_vars == <<farm_vars, weather_vars, sample_vars, store_vars, service_vars>>

vars == <<now, season, sensor_data, crop_type, growth, equipment_list, last_call,
          prev_call, next_uuid, equipment, crop, rest_vars>>

\* an optional number: None is the empty tuple, the number v is <<v>>
None == <<>>
Some(v) == <<v>>

(***************************************************************************)
(* Exact rational arithmetic standing for Python float arithmetic.         *)
(***************************************************************************)
Abs(x) == IF x < 0 THEN -x ELSE x

RECURSIVE GCD(_, _)
GCD(a, b) == IF b = 0 THEN a ELSE GCD(b, a % b)

Norm(n, d) ==
    LET s == IF d < 0 THEN -1 ELSE 1
        g == GCD(Abs(n), Abs(d))
    IN  <<(s * n) \div g, (s * d) \div g>>

Rat(n) == <<n, 1>>
RAdd(p, q) ==
    LET g == GCD(p[2], q[2])
    IN  Norm(p[1] * (q[2] \div g) + q[1] * (p[2] \div g), (p[2] \div g) * q[2])
RMul(p, q) ==
    LET a == Norm(p[1], q[2])
        b == Norm(q[1], p[2])
    IN  Norm(a[1] * b[1], a[2] * b[2])
RLeq(p, q) == p[1] * q[2] <= q[1] * p[2]
RLt(p, q) == p[1] * q[2] < q[1] * p[2]
RMax(p, q) == IF RLt(p, q) THEN q ELSE p     \* max(p, q): q only when q > p
RMin(p, q) == IF RLt(q, p) THEN q ELSE p     \* min(p, q): q only when q < p

(***************************************************************************)
(* The calendar: datetime.now().month of a clock reading.                  *)
(***************************************************************************)
MonthLengths == <<31, 28, 31, 30, 31, 30, 31, 31, 30, 31, 30, 31>>

RECURSIVE MonthFrom(_, _)
MonthFrom(m, d) ==
    IF d < MonthLengths[m] THEN m ELSE MonthFrom(m + 1, d - MonthLengths[m])

DayOfYear(t) == (t \div 2) % 365
MonthOf(t) == MonthFrom(1, DayOfYear(t))

(***************************************************************************)
(* MalaysianFarmSimulator.weather_patterns and get_current_season.         *)
(***************************************************************************)
SeasonOrder == <<"dry_season", "wet_season", "transition">>

weather_patterns_DroppedMarch ==
    [dry_season |-> {6, 7, 8, 9},
     wet_season |-> {10, 11, 12, 1, 2},
     transition |-> {4, 5}]

weather_patterns ==
    [dry_season |-> {6, 7, 8, 9},
     wet_season |-> {10, 11, 12, 1, 2, 3},
     transition |-> {4, 5}]

\* the positions, in dictionary order, of the seasons whose months hold the month
MatchingSeasons(month) ==
    {i \in DOMAIN SeasonOrder : month \in weather_patterns[SeasonOrder[i]]}

\* the loop returns at the first match; the trailing return is the default
season_for(month) ==
    LET hits == MatchingSeasons(month)
    IN  IF hits = {}
        THEN [called |-> TRUE, month |-> month, season |-> "transition",
              by_default |-> TRUE]
        ELSE [called |-> TRUE, month |-> month,
              season |-> SeasonOrder[CHOOSE i \in hits : \A j \in hits : i <= j],
              by_default |-> FALSE]

get_current_season ==
    /\ season' = season_for(MonthOf(now))
    /\ UNCHANGED <<now, sensor_data, crop_type, growth, equipment_list, last_call,
                   prev_call, next_uuid, equipment, crop, rest_vars>>

(***************************************************************************)
(* CropGrowthSimulator.growth_factors and calculate_growth_rate.           *)
(***************************************************************************)
Params == <<"temperature", "humidity", "soil_moisture", "ph_level", "rainfall">>

\* optimal bands in tenths, weights in hundredths
growth_factors ==
    [temperature   |-> [optimal |-> <<260, 300>>, weight |-> 25],
     humidity      |-> [optimal |-> <<700, 850>>, weight |-> 15],
     soil_moisture |-> [optimal |-> <<700, 900>>, weight |-> 30],
     ph_level      |-> [optimal |-> <<60, 70>>,   weight |-> 15],
     rainfall      |-> [optimal |-> <<100, 300>>, weight |-> 15]]

KnownCrops == {"rice", "palm_oil", "rubber", "durian", "banana", "coconut"}

crop_modifier_DurianFaster(ct) == IF ct = "durian" THEN 13 ELSE 10

\* crop_modifiers.get(crop_type, 1.0), in tenths
crop_modifier(ct) ==
    CASE ct = "rice"     -> 10
      [] ct = "palm_oil" -> 8
      [] ct = "rubber"   -> 6
      [] ct = "durian"   -> 12
      [] ct = "banana"   -> 11
      [] ct = "coconut"  -> 7
      [] OTHER           -> 10

RECURSIVE SumField(_, _)
SumField(w, f) ==
    LET n == Len(w)
    IN  IF n = 0 THEN 0
        ELSE IF n = 1 THEN w[1][f]
        ELSE SumField(SubSeq(w, 1, n \div 2), f) + SumField(SubSeq(w, n \div 2 + 1, n), f)

LastN_WholeWindow(w, n) == w

\* sensor_data[-n:]
LastN(w, n) == IF Len(w) <= n THEN w ELSE SubSeq(w, Len(w) - n + 1, Len(w))

\* a float division; dividing by zero raises ZeroDivisionError
Div(n, d) == IF d = 0 THEN [ok |-> FALSE, value |-> Rat(0)]
             ELSE [ok |-> TRUE, value |-> Norm(n, d)]

avg_conditions_MeanRainfall(recent) ==
    [p \in {Params[i] : i \in DOMAIN Params} |-> Div(SumField(recent, p), Len(recent))]

\* the four means and the rainfall sum of the recent window
avg_conditions(recent) ==
    [p \in {Params[i] : i \in DOMAIN Params} |->
        IF p = "rainfall" THEN [ok |-> TRUE, value |-> Rat(SumField(recent, p))]
                          ELSE Div(SumField(recent, p), Len(recent))]

\* the factor of one parameter: 1.0 inside the band, else max(0.1, 1 - deviation/2)
factor_of(value, optimal) ==
    LET lo == Rat(optimal[1])
        hi == Rat(optimal[2])
        deviation == IF RLt(value, lo)
                     THEN RMul(RAdd(lo, RMul(Rat(-1), value)), <<1, optimal[1]>>)
                     ELSE RMul(RAdd(value, Rat(-optimal[2])), <<1, optimal[2]>>)
    IN  IF RLeq(lo, value) /\ RLeq(value, hi)
        THEN Rat(1)
        ELSE RMax(<<1, 10>>, RAdd(Rat(1), RMul(deviation, <<-1, 2>>)))

RECURSIVE weighted_sum(_, _)
weighted_sum(avg, i) ==
    IF i > Len(Params) THEN Rat(0)
    ELSE RAdd(RMul(factor_of(avg[Params[i]].value, growth_factors[Params[i]].optimal),
                   Rat(growth_factors[Params[i]].weight)),
              weighted_sum(avg, i + 1))

RECURSIVE total_weight(_)
total_weight(i) ==
    IF i > Len(Params) THEN 0 ELSE growth_factors[Params[i]].weight + total_weight(i + 1)

clamp_UpperOnly(r) == RMin(Rat(2), r)

\* max(0.1, min(2.0, growth_rate))
clamp(r) == RMax(<<1, 10>>, RMin(Rat(2), r))

WindowSize == 168

rate_of(w, ct) ==
    LET recent == LastN(w, WindowSize)
        avg == avg_conditions(recent)
        tw == total_weight(1)
        base == IF tw > 0 THEN RMul(weighted_sum(avg, 1), <<1, tw>>) ELSE Rat(1)
    IN  IF \E p \in DOMAIN avg : ~avg[p].ok
        THEN [called |-> TRUE, ok |-> FALSE, value |-> Rat(0), divided |-> TRUE]
        ELSE [called |-> TRUE, ok |-> TRUE,
              value |-> clamp(RMul(base, <<crop_modifier(ct), 10>>)), divided |-> TRUE]

\* the outcome of calculate_growth_rate: ok = no exception, value = the rate,
\* divided = the means over len(recent_data) were computed
calculate_growth_rate_NoEmptyGuard(w, ct) == rate_of(w, ct)

calculate_growth_rate(w, ct) ==
    IF w = <<>> THEN [called |-> TRUE, ok |-> TRUE, value |-> Rat(1), divided |-> FALSE]
    ELSE IF LastN(w, WindowSize) = <<>>
         THEN [called |-> TRUE, ok |-> TRUE, value |-> Rat(1), divided |-> FALSE]
         ELSE rate_of(w, ct)

CalculateGrowthRate ==
    /\ growth' = calculate_growth_rate(sensor_data, crop_type)
    /\ UNCHANGED <<now, season, sensor_data, crop_type, equipment_list, last_call,
                   prev_call, next_uuid, equipment, crop, rest_vars>>

(***************************************************************************)
(* The clock.                                                              *)
(***************************************************************************)
MaxTicks == 2

StartOfClock == 2 * 365      \* 1 January 00:00 of the second year

Tick ==
    /\ now < StartOfClock + MaxTicks
    /\ now' = now + 1
    /\ UNCHANGED <<season, sensor_data, crop_type, growth, equipment_list, last_call,
                   prev_call, next_uuid, equipment, crop, rest_vars>>

(***************************************************************************)
(* MalaysianFarmSimulator.simulate_equipment_alerts.                       *)
(* An equipment record keeps the fields the deriver and the generator use: *)
(* id, name, type, status, last_maintenance (a clock reading), fuel_level  *)
(* (a percentage or None) and efficiency (in tenths of a percent).         *)
(***************************************************************************)
MaxUuid == 12

days_since_RoundedUp(t, last_maintenance) == (t - last_maintenance + 1) \div 2

\* (datetime.now() - last_maintenance).days: the whole days, a floor
days_since(t, last_maintenance) == (t - last_maintenance) \div 2

\* Python truthiness of equipment.get("fuel_level"): None and 0 are false
Truthy(v) == v # None /\ v[1] # 0

maintenance_due(e, t) == days_since(t, e.last_maintenance) > 60

\* equipment.get("fuel_level") and equipment["fuel_level"] < 25
fuel_low(e) ==
    IF Truthy(e.fuel_level) THEN e.fuel_level[1] < 25 ELSE FALSE

efficiency_low_Inclusive(e) == e.efficiency <= 800

efficiency_low(e) == e.efficiency < 800

maintenance_alert_NeverHigh(e, t, id) ==
    [id |-> id, type |-> "maintenance", severity |-> "medium",
     equipment_id |-> e.id, equipment_name |-> e.name,
     message |-> <<"Maintenance overdue by", days_since(t, e.last_maintenance) - 60, "days">>,
     timestamp |-> t, action_required |-> "Schedule maintenance"]

maintenance_alert(e, t, id) ==
    [id |-> id, type |-> "maintenance",
     severity |-> IF days_since(t, e.last_maintenance) > 90 THEN "high" ELSE "medium",
     equipment_id |-> e.id, equipment_name |-> e.name,
     message |-> <<"Maintenance overdue by", days_since(t, e.last_maintenance) - 60, "days">>,
     timestamp |-> t, action_required |-> "Schedule maintenance"]

fuel_alert_HighUpTo20(e, t, id) ==
    [id |-> id, type |-> "fuel",
     severity |-> IF e.fuel_level[1] > 20 THEN "medium" ELSE "high",
     equipment_id |-> e.id, equipment_name |-> e.name,
     message |-> <<"Low fuel level:", e.fuel_level[1], "%">>,
     timestamp |-> t, action_required |-> "Refuel equipment"]

fuel_alert(e, t, id) ==
    [id |-> id, type |-> "fuel",
     severity |-> IF e.fuel_level[1] > 15 THEN "medium" ELSE "high",
     equipment_id |-> e.id, equipment_name |-> e.name,
     message |-> <<"Low fuel level:", e.fuel_level[1], "%">>,
     timestamp |-> t, action_required |-> "Refuel equipment"]

efficiency_alert(e, t, id) ==
    [id |-> id, type |-> "efficiency", severity |-> "medium",
     equipment_id |-> e.id, equipment_name |-> e.name,
     message |-> <<"Low efficiency:", e.efficiency, "%">>,
     timestamp |-> t, action_required |-> "Check equipment performance"]

\* the alerts of one equipment item, in the order the loop body appends them;
\* ids are taken from uuid onwards
item_alerts(e, t, uuid) ==
    LET m == IF maintenance_due(e, t) THEN <<maintenance_alert(e, t, uuid)>> ELSE <<>>
        f == IF fuel_low(e) THEN <<fuel_alert(e, t, uuid + Len(m))>> ELSE <<>>
        x == IF efficiency_low(e)
             THEN <<efficiency_alert(e, t, uuid + Len(m) + Len(f))>> ELSE <<>>
    IN  m \o f \o x

RECURSIVE simulate_equipment_alerts(_, _, _)
simulate_equipment_alerts(list, t, uuid) ==
    IF list = <<>> THEN <<>>
    ELSE LET head == item_alerts(list[1], t, uuid)
         IN  head \o simulate_equipment_alerts(Tail(list), t, uuid + Len(head))

SimulateEquipmentAlerts ==
    LET result == simulate_equipment_alerts(equipment_list, now, next_uuid)
    IN  /\ next_uuid + Len(result) <= MaxUuid + 1
        /\ last_call' = [made |-> TRUE, time |-> now, alerts |-> result]
        /\ prev_call' = last_call
        /\ next_uuid' = next_uuid + Len(result)
        /\ UNCHANGED <<now, season, sensor_data, crop_type, growth, equipment_list,
                       equipment, crop, rest_vars>>

(***************************************************************************)
(* MalaysianFarmSimulator.equipment_types and generate_equipment_data.     *)
(* The draws of random are choices from the sets below; the fields no      *)
(* operation of the engine reads back (model, location, operational_hours, *)
(* next_maintenance, cost_per_hour) are left out of the record.            *)
(***************************************************************************)
equipment_types ==
    [irrigation |-> {"Drip System", "Sprinkler System", "Flood Irrigation", "Smart Irrigation"},
     tractor    |-> {"Kubota M7040", "John Deere 5E", "Massey Ferguson 385", "New Holland TD5"},
     harvester  |-> {"Rice Harvester", "Palm Oil Harvester", "Multi-crop Harvester"},
     drone      |-> {"DJI Agras", "Yamaha RMAX", "AgEagle RX60", "PrecisionHawk Lancaster"},
     sensor     |-> {"Weather Station", "Soil Sensor", "Crop Monitor", "Water Level Sensor"}]

\* self.equipment_types.get(equipment_type, ["Generic Equipment"])
equipment_names(type) ==
    IF type \in DOMAIN equipment_types THEN equipment_types[type] ELSE {"Generic Equipment"}

status_weights == {"operational", "maintenance", "idle", "repair"}

\* the types handed to the generator: the five known ones and an unknown one
EquipmentTypeInputs == DOMAIN equipment_types \cup {"sprayer"}

\* samples of random.randint(1, 90), random.randint(20, 100) and
\* round(random.uniform(75, 98), 1) (in tenths), with the ends of each range
MaintenanceDaysBack == {1, 60, 61, 90}
FuelDraws == {20, 24, 25, 100}
EfficiencyDraws == {750, 800, 980}

\* the types random.randint(20, 100) is drawn for
FuelledTypes == {"tractor", "harvester"}

fuel_level_for_AnyMotorised(type, draw) ==
    IF type \in {"tractor", "harvester", "drone"} THEN Some(draw) ELSE None

\* random.randint(20, 100) if equipment_type in ["tractor", "harvester"] else None
fuel_level_for(type, draw) ==
    IF type \in FuelledTypes THEN Some(draw) ELSE None

generate_equipment_data(type, name, status, days_back, fuel_draw, eff, t, uuid) ==
    [id |-> uuid, name |-> name, type |-> type, status |-> status,
     last_maintenance |-> t - 2 * days_back,
     fuel_level |-> fuel_level_for(type, fuel_draw),
     efficiency |-> eff]

MaxGenerated == 2

GenerateEquipmentData ==
    /\ next_uuid <= MaxGenerated
    /\ \E type \in EquipmentTypeInputs, status \in status_weights,
          days_back \in MaintenanceDaysBack, eff \in EfficiencyDraws :
          \E name \in equipment_names(type),
             fuel_draw \in (IF type \in FuelledTypes THEN FuelDraws ELSE {0}) :
             equipment' = [made |-> TRUE,
                           record |-> generate_equipment_data(type, name, status, days_back,
                                                              fuel_draw, eff, now, next_uuid)]
    /\ next_uuid' = next_uuid + 1
    /\ UNCHANGED <<now, season, sensor_data, crop_type, growth, equipment_list, last_call,
                   prev_call, crop, rest_vars>>

(***************************************************************************)
(* MalaysianFarmSimulator.crop_data and generate_crop_data.                *)
(* Areas are in hundredths of a hectare, growth_progress in tenths of a    *)
(* percent.  The qualitative fields drawn by random.choice and the two     *)
(* application dates, which nothing reads back, are left out.              *)
(***************************************************************************)
crop_data ==
    [rice     |-> [varieties |-> {"MR220", "MR219", "MR297", "Bario", "Fragrant Rice"},
                   growth_stages |-> <<"seedling", "tillering", "panicle_initiation",
                                       "flowering", "grain_filling", "maturity">>,
                   growth_cycle_days |-> 120, yield_range |-> <<3000, 7000>>],
     palm_oil |-> [varieties |-> {"Dura", "Pisifera", "Tenera", "MPOB Yangambi", "FELDA"},
                   growth_stages |-> <<"nursery", "immature", "young_mature",
                                       "prime_mature", "old_mature">>,
                   growth_cycle_days |-> 365, yield_range |-> <<15000, 25000>>],
     rubber   |-> [varieties |-> {"RRIM 600", "RRIM 2020", "RRIM 3001", "PB 260", "GT 1"},
                   growth_stages |-> <<"immature", "young_tapping", "peak_production",
                                       "declining">>,
                   growth_cycle_days |-> 365, yield_range |-> <<1200, 2500>>],
     durian   |-> [varieties |-> {"Musang King", "D24", "Red Prawn", "IOI", "Tekka"},
                   growth_stages |-> <<"flowering", "fruit_set", "fruit_development",
                                       "ripening", "harvest">>,
                   growth_cycle_days |-> 150, yield_range |-> <<8000, 15000>>],
     banana   |-> [varieties |-> {"Cavendish", "Pisang Mas", "Pisang Raja", "Berangan",
                                  "Rastali"},
                   growth_stages |-> <<"sucker", "vegetative", "flowering",
                                       "bunch_development", "harvest">>,
                   growth_cycle_days |-> 300, yield_range |-> <<20000, 40000>>],
     coconut  |-> [varieties |-> {"Malayan Dwarf", "Malayan Tall", "MATAG", "MAWA", "Hybrid"},
                   growth_stages |-> <<"seedling", "juvenile", "flowering", "bearing",
                                       "mature">>,
                   growth_cycle_days |-> 365, yield_range |-> <<6000, 12000>>]]

\* int(x) of a rational x >= 0, and Python's round(x, 0) (ties to even)
Floor(r) == r[1] \div r[2]
Round(r) ==
    LET f == Floor(r)
        twice == 2 * (r[1] - f * r[2])      \* twice the fractional part, over r[2]
    IN  IF twice < r[2] THEN f
        ELSE IF twice > r[2] THEN f + 1
        ELSE IF f % 2 = 0 THEN f ELSE f + 1

Min(a, b) == IF a < b THEN a ELSE b

\* min(int(days_since_planted / stage_duration), total_stages - 1), 0-based,
\* where stage_duration = growth_cycle_days / total_stages
current_stage_index_Ceiling(days, cycle, total_stages) ==
    Floor(RMul(Rat(days), <<total_stages, cycle>>)) + 1

current_stage_index(days, cycle, total_stages) ==
    Min(Floor(RMul(Rat(days), <<total_stages, cycle>>)), total_stages - 1)

\* the days random.randint(10, growth_cycle_days - 30) can return
days_since_planted_range_WholeCycle(cycle) == 10 .. cycle

days_since_planted_range(cycle) == 10 .. (cycle - 30)

\* the yield modifier drawn for a stage: an end of uniform(0.9, 1.1) for the
\* late stages, of uniform(0.3, 0.8) for the others
yield_modifier(stage, high_draw) ==
    IF stage \in {"maturity", "harvest", "ripening"}
    THEN (IF high_draw THEN <<11, 10>> ELSE <<9, 10>>)
    ELSE (IF high_draw THEN <<8, 10>> ELSE <<3, 10>>)

\* the crop types and plot areas handed to the generator
CropTypeInputs == KnownCrops \cup {"wheat"}
PlotAreas == {0, 50, 238, 500}

NoCrop ==
    [type |-> "", variety |-> "", planted_date |-> 0, expected_harvest |-> 0,
     growth_stage |-> "", growth_progress |-> 0, yield_estimate |-> 0,
     yield_per_hectare |-> 0]

\* outcome of generate_crop_data: ok = no exception (KeyError for a crop type
\* outside crop_data, IndexError for a stage index outside the stage list,
\* ZeroDivisionError for a zero area); args = the arguments and the days drawn
Raised(args, error) ==
    [made |-> TRUE, ok |-> FALSE, error |-> error, args |-> args, record |-> NoCrop]

generate_crop_data(ct, plot_area, variety, days, high_yield, high_draw, t) ==
    LET args == [crop_type |-> ct, plot_area |-> plot_area, days |-> days]
    IN
    IF ct \notin DOMAIN crop_data THEN Raised(args, "KeyError")
    ELSE
    LET crop_info == crop_data[ct]
        cycle == crop_info.growth_cycle_days
        total_stages == Len(crop_info.growth_stages)
        index == current_stage_index(days, cycle, total_stages)
    IN
    IF index + 1 \notin DOMAIN crop_info.growth_stages THEN Raised(args, "IndexError")
    ELSE
    LET growth_stage == crop_info.growth_stages[index + 1]
        base_yield == crop_info.yield_range[IF high_yield THEN 2 ELSE 1]
        estimated_yield ==
            Round(RMul(RMul(Rat(base_yield), yield_modifier(growth_stage, high_draw)),
                       <<plot_area, 100>>))
        planted_date == t - 2 * days
    IN
    IF plot_area = 0 THEN Raised(args, "ZeroDivisionError")
    ELSE [made |-> TRUE, ok |-> TRUE, error |-> "", args |-> args,
          record |->
            [type |-> ct, variety |-> variety,
             planted_date |-> planted_date,
             expected_harvest |-> planted_date + 2 * cycle,
             growth_stage |-> growth_stage,
             growth_progress |-> Round(Norm(days * 1000, cycle)),
             yield_estimate |-> estimated_yield,
             yield_per_hectare |-> Round(Norm(estimated_yield * 100, plot_area))]]

GenerateCropData ==
    /\ ~crop.made
    /\ \E ct \in CropTypeInputs, plot_area \in PlotAreas, high_yield \in BOOLEAN,
          high_draw \in BOOLEAN :
          IF ct \in DOMAIN crop_data
          THEN \E variety \in crop_data[ct].varieties,
                  days \in days_since_planted_range(crop_data[ct].growth_cycle_days) :
                  crop' = generate_crop_data(ct, plot_area, variety, days, high_yield,
                                             high_draw, now)
          ELSE crop' = generate_crop_data(ct, plot_area, "", 0, high_yield, high_draw, now)
    /\ UNCHANGED <<now, season, sensor_data, crop_type, growth, equipment_list, last_call,
                   prev_call, next_uuid, equipment, rest_vars>>

(***************************************************************************)
(* MalaysianFarmSimulator.generate_complete_farm.                          *)
(* A plot keeps id, area, status, crop, equipment, sensors and             *)
(* irrigation_status; a farm keeps id, total_area and plots.  The name,    *)
(* the location and the descriptive fields drawn by random.choice, which   *)
(* no operation reads back, are left out.  The values random returns       *)
(* during one call are the call's draws: one record per plot, so that the  *)
(* number of records is the num_plots drawn.                               *)
(***************************************************************************)
\* the plots random.randint(3, 8) asks for
num_plots_range == 3 .. 8

\* the sum of the first n entries of a sequence of numbers
RECURSIVE SumTo(_, _)
SumTo(f, n) == IF n = 0 THEN 0 ELSE SumTo(f, n - 1) + f[n]

round_total_area_WholeHectares(total_area) == 100 * Round(Norm(total_area, 100))

\* "total_area": round(total_area, 2), on an area in hundredths
round_total_area(total_area) == Round(Rat(total_area))

plot_status_StageFirst(equipment_statuses, growth_stage, active_draw) ==
    IF growth_stage \in {"harvest", "maturity", "ripening"} THEN "harvesting"
    ELSE IF "repair" \in equipment_statuses THEN "maintenance"
    ELSE IF active_draw THEN "active"
    ELSE "idle"

\* the plot status, from the statuses of the plot's equipment, the stage of
\* its crop and the outcome of random.random() < 0.8
plot_status(equipment_statuses, growth_stage, active_draw) ==
    IF "repair" \in equipment_statuses THEN "maintenance"
    ELSE IF growth_stage \in {"harvest", "maturity", "ripening"} THEN "harvesting"
    ELSE IF active_draw THEN "active"
    ELSE "idle"

\* the uuid4 values one iteration of the plot loop takes: the sensors, the
\* equipment ids and the plot id
uuids_of(draw) == draw.num_sensors + Len(draw.equipment) + 1

\* one iteration of the plot loop; ok is FALSE when generate_crop_data raised
generate_plot(draw, t, uuid) ==
    LET sensors == [k \in 1 .. draw.num_sensors |-> uuid + k - 1]
        equipment_uuid == uuid + draw.num_sensors
        plot_equipment ==
            [k \in 1 .. Len(draw.equipment) |->
                LET d == draw.equipment[k]
                IN  generate_equipment_data(d.type, d.name, d.status, d.days_back,
                                            d.fuel_draw, d.efficiency, t,
                                            equipment_uuid + k - 1)]
        made_crop == generate_crop_data(draw.crop_type, draw.area, draw.variety, draw.days,
                                        draw.high_yield, draw.high_draw, t)
        equipment_statuses == {plot_equipment[k].status : k \in DOMAIN plot_equipment}
    IN  [ok |-> made_crop.ok,
         plot |-> [id |-> equipment_uuid + Len(draw.equipment),
                   area |-> draw.area,
                   status |-> plot_status(equipment_statuses, made_crop.record.growth_stage,
                                          draw.active),
                   crop |-> made_crop.record,
                   equipment |-> plot_equipment,
                   sensors |-> sensors,
                   irrigation_status |-> draw.irrigation]]

NoFarmDocument == [id |-> 0, total_area |-> 0, plots |-> <<>>]

\* the uuid4 values a call takes: the farm id and those of its plots
farm_uuids(draws) == 1 + SumTo([i \in DOMAIN draws |-> uuids_of(draws[i])], Len(draws))

\* outcome of generate_complete_farm: ok = no exception; document = the farm
generate_complete_farm(draws, t, uuid) ==
    LET num_plots == Len(draws)
        used == [i \in 1 .. num_plots |-> uuids_of(draws[i])]
        areas == [i \in 1 .. num_plots |-> draws[i].area]
        made == [i \in 1 .. num_plots |->
                    generate_plot(draws[i], t, uuid + 1 + SumTo(used, i - 1))]
    IN  IF \E i \in 1 .. num_plots : ~made[i].ok
        THEN [made |-> TRUE, ok |-> FALSE, document |-> NoFarmDocument]
        ELSE [made |-> TRUE, ok |-> TRUE,
              document |-> [id |-> uuid,
                            total_area |-> round_total_area(SumTo(areas, num_plots)),
                            plots |-> [i \in 1 .. num_plots |-> made[i].plot]]]

GenerateCompleteFarm ==
    /\ random_draws # <<>>
    /\ farm' = generate_complete_farm(Head(random_draws), now, next_uuid)
    /\ next_uuid' = next_uuid + farm_uuids(Head(random_draws))
    /\ random_draws' = Tail(random_draws)
    /\ UNCHANGED <<now, call_vars, service_vars, weather_vars, sample_vars, store_vars>>

(***************************************************************************)
(* MalaysianFarmSimulator.generate_weather_data and                        *)
(* generate_weather_forecast.  A sample keeps season and time, a forecast  *)
(* entry date and day_name; the temperature, humidity, rainfall, light and *)
(* wind figures (those a forecast entry takes from the sample of its day   *)
(* included) are draws of random and are left out.  Offsets are whole      *)
(* numbers of half days (multiples of 12 h).                               *)
(***************************************************************************)
\* datetime.now() + timedelta(hours=time_offset_hours)
shifted(t, time_offset_hours) == t + time_offset_hours \div 12

generate_weather_data(t, time_offset_hours) ==
    [made |-> TRUE,
     offset |-> time_offset_hours,
     called_at |-> t,
     season |-> season_for(MonthOf(t)).season,
     time |-> shifted(t, time_offset_hours)]

\* the offsets handed to the sampler: 30 days and one day back, half a day
\* back and ahead, none, one day and a week ahead
TimeOffsets == {-720, -24, -12, 0, 12, 24, 168}

GenerateWeatherData ==
    /\ \E time_offset_hours \in TimeOffsets :
          weather' = generate_weather_data(now, time_offset_hours)
    /\ UNCHANGED <<now, next_uuid, call_vars, service_vars, farm_vars, forecast, sample_vars, store_vars>>

\* future_date.strftime("%Y-%m-%d"): year, month and day of the month
strftime_date(t) ==
    LET month == MonthOf(t)
    IN  <<t \div (2 * 365), month, DayOfYear(t) - SumTo(MonthLengths, month - 1) + 1>>

\* future_date.strftime("%A"): the day of the week, 0 for the weekday of the
\* first day of the clock
strftime_day_name(t) == (t \div 2) % 7

forecast_days_FromToday(days) == [i \in 1 .. days |-> i - 1]

\* range(1, days + 1), in order
forecast_days(days) == [i \in 1 .. days |-> i]

generate_weather_forecast(t, days) ==
    LET day_list == forecast_days(days)
    IN  [made |-> TRUE,
         days |-> days,
         called_at |-> t,
         entries |-> [i \in DOMAIN day_list |->
                        LET future_date == t + 2 * day_list[i]
                        IN  [date |-> strftime_date(future_date),
                             day_name |-> strftime_day_name(future_date)]]]

MaxForecastDays == 8

GenerateWeatherForecast ==
    /\ \E days \in -1 .. MaxForecastDays :
          forecast' = generate_weather_forecast(now, days)
    /\ UNCHANGED <<now, next_uuid, call_vars, service_vars, farm_vars, weather, sample_vars, store_vars>>

(***************************************************************************)
(* MalaysianFarmSimulator.generate_soil_data.  Moisture and pH are in      *)
(* tenths.  A sample keeps soil_moisture and ph_level; the nutrient        *)
(* figures, draws of random that depend on nothing, are left out.  The     *)
(* draws of random.uniform are the ends of their ranges.                   *)
(***************************************************************************)
\* optimal_ph and optimal_moisture of MalaysianFarmSimulator.crop_data
soil_optima ==
    [rice     |-> [optimal_ph |-> <<55, 70>>, optimal_moisture |-> <<800, 950>>],
     palm_oil |-> [optimal_ph |-> <<45, 65>>, optimal_moisture |-> <<600, 800>>],
     rubber   |-> [optimal_ph |-> <<45, 60>>, optimal_moisture |-> <<700, 850>>],
     durian   |-> [optimal_ph |-> <<60, 75>>, optimal_moisture |-> <<700, 900>>],
     banana   |-> [optimal_ph |-> <<55, 70>>, optimal_moisture |-> <<750, 850>>],
     coconut  |-> [optimal_ph |-> <<52, 80>>, optimal_moisture |-> <<600, 800>>]]

\* self.crop_data.get(crop_type, self.crop_data["rice"])
soil_crop_info(ct) ==
    IF ct \in DOMAIN soil_optima THEN soil_optima[ct] ELSE soil_optima["rice"]

soil_moisture_modifier == [dry_season |-> -100, wet_season |-> 150, transition |-> 0]

\* the range the moisture modifier is drawn from, by the rainfall of the sample
moisture_modifier_range(rainfall) ==
    IF rainfall > 200 THEN <<50, 150>>
    ELSE IF rainfall = 0 THEN <<-100, -50>>
    ELSE <<-20, 50>>

Max(a, b) == IF a > b THEN a ELSE b

generate_soil_data(ct, rainfall, weather_season, high_base, high_modifier, high_ph) ==
    LET crop_info == soil_crop_info(ct)
        pick(range, high) == range[IF high THEN 2 ELSE 1]
        moisture_base == pick(crop_info.optimal_moisture, high_base)
        moisture_modifier == pick(moisture_modifier_range(rainfall), high_modifier)
        season_modifier == soil_moisture_modifier[weather_season]
        ph_range == crop_info.optimal_ph
    IN  [made |-> TRUE,
         args |-> [crop_type |-> ct, rainfall |-> rainfall, season |-> weather_season,
                   high_base |-> high_base, high_modifier |-> high_modifier,
                   high_ph |-> high_ph],
         sample |-> [soil_moisture |->
                        Max(200, Min(1000, moisture_base + moisture_modifier
                                           + season_modifier)),
                     ph_level |-> pick(<<ph_range[1] - 5, ph_range[2] + 5>>, high_ph)]]

\* the rainfall of the weather sample, in tenths of a millimetre: none, some, heavy
RainfallInputs == {0, 100, 201}

GenerateSoilData ==
    /\ ~soil.made
    /\ \E ct \in CropTypeInputs, rainfall \in RainfallInputs,
          weather_season \in DOMAIN weather_patterns,
          high_base \in BOOLEAN, high_modifier \in BOOLEAN, high_ph \in BOOLEAN :
          soil' = generate_soil_data(ct, rainfall, weather_season, high_base,
                                     high_modifier, high_ph)
    /\ UNCHANGED <<now, next_uuid, call_vars, service_vars, farm_vars, weather_vars, advanced, store_vars>>

(***************************************************************************)
(* CropGrowthSimulator.update_crop_progress, get_stage_thresholds and      *)
(* get_cycle_days.  A crop record keeps type, planted_date and             *)
(* yield_estimate; growth_progress is a rational number of percent,        *)
(* growth_rate is in hundredths, expected_harvest a rational number of     *)
(* half days.                                                              *)
(***************************************************************************)
\* the threshold tables, each in the order of its dictionary
stage_thresholds ==
    [rice     |-> << <<"seedling", 0>>, <<"tillering", 30>>, <<"panicle_initiation", 60>>,
                     <<"flowering", 90>>, <<"grain_filling", 105>>, <<"maturity", 120>> >>,
     palm_oil |-> << <<"nursery", 0>>, <<"immature", 90>>, <<"young_mature", 180>>,
                     <<"prime_mature", 270>>, <<"old_mature", 300>> >>,
     rubber   |-> << <<"immature", 0>>, <<"young_tapping", 120>>, <<"peak_production", 240>>,
                     <<"declining", 300>> >>,
     durian   |-> << <<"flowering", 0>>, <<"fruit_set", 30>>, <<"fruit_development", 90>>,
                     <<"ripening", 120>>, <<"harvest", 150>> >>,
     banana   |-> << <<"sucker", 0>>, <<"vegetative", 60>>, <<"flowering", 180>>,
                     <<"bunch_development", 240>>, <<"harvest", 300>> >>,
     coconut  |-> << <<"seedling", 0>>, <<"juvenile", 90>>, <<"flowering", 180>>,
                     <<"bearing", 270>>, <<"mature", 365>> >>]

\* thresholds.get(crop_type, thresholds["rice"])
get_stage_thresholds(ct) ==
    IF ct \in DOMAIN stage_thresholds THEN stage_thresholds[ct] ELSE stage_thresholds["rice"]

cycles == [rice |-> 120, palm_oil |-> 365, rubber |-> 365, durian |-> 150, banana |-> 300,
           coconut |-> 365]

\* cycles.get(crop_type, 120)
get_cycle_days(ct) == IF ct \in DOMAIN cycles THEN cycles[ct] ELSE 120

RSub(p, q) == RAdd(p, <<-q[1], q[2]>>)
RDiv(p, q) == Norm(p[1] * q[2], p[2] * q[1])      \* q is not zero

\* the loop over the table: the stage of the last entry, in dictionary order,
\* whose threshold the progress has reached; "seedling" when there is none
current_stage(table, actual_progress) ==
    LET reached == {i \in DOMAIN table : RLeq(Rat(table[i][2]), actual_progress)}
    IN  IF reached = {} THEN "seedling"
        ELSE table[CHOOSE i \in reached : \A j \in reached : j <= i][1]

\* 1.1 for a rate above 1.2, 0.9 for a rate below 0.8, else 1.0
progress_yield_modifier(growth_rate) ==
    IF RLt(<<6, 5>>, growth_rate) THEN <<11, 10>>
    ELSE IF RLt(growth_rate, <<4, 5>>) THEN <<9, 10>>
    ELSE Rat(1)

NoProgress ==
    [type |-> "", planted_date |-> 0, growth_stage |-> "", growth_progress |-> Rat(0),
     growth_rate |-> 0, yield_estimate |-> 0, expected_harvest |-> Rat(0),
     last_growth_update |-> 0]

\* outcome of update_crop_progress: ok = no exception (ZeroDivisionError for
\* a growth rate of zero); args = the arguments and the whole days elapsed
update_crop_progress(crop_record, growth_rate, t) ==
    LET days_since_planted == (t - crop_record.planted_date) \div 2
        actual_progress == RMul(Rat(days_since_planted), growth_rate)
        ct == crop_record.type
        total_cycle_days == get_cycle_days(ct)
        updated_yield == RMul(Rat(crop_record.yield_estimate),
                              progress_yield_modifier(growth_rate))
        args == [crop_data |-> crop_record, growth_rate |-> growth_rate,
                 days_since_planted |-> days_since_planted]
    IN  IF growth_rate[1] = 0
        THEN [made |-> TRUE, ok |-> FALSE, error |-> "ZeroDivisionError", args |-> args,
              record |-> NoProgress]
        ELSE
        LET remaining_days == RDiv(RSub(Rat(total_cycle_days), actual_progress), growth_rate)
        IN  [made |-> TRUE, ok |-> TRUE, error |-> "", args |-> args,
             record |->
               [type |-> ct,
                planted_date |-> crop_record.planted_date,
                growth_stage |-> current_stage(get_stage_thresholds(ct), actual_progress),
                growth_progress |->
                    RMin(Rat(100), RMul(RDiv(actual_progress, Rat(total_cycle_days)),
                                        Rat(100))),
                growth_rate |-> Round(RMul(growth_rate, Rat(100))),
                yield_estimate |-> Round(updated_yield),
                expected_harvest |-> RAdd(Rat(t), RMul(Rat(2), remaining_days)),
                last_growth_update |-> t]]

\* the whole days since planting handed in (a day in the future, the day of
\* planting, the days around every threshold, a day past the longest cycle)
\* and the half day on top of them
PlantedDaysAgo == {-1, 0, 29, 30, 60, 90, 104, 105, 119, 120, 150, 180, 240, 270, 299, 300,
                   364, 365, 400}

\* growth rates within the range calculate_growth_rate returns
GrowthRates == {<<1, 10>>, <<1, 2>>, <<4, 5>>, <<1, 1>>, <<6, 5>>, <<13, 10>>, <<2, 1>>}

YieldEstimates == {1500}

UpdateCropProgress ==
    /\ ~advanced.made
    /\ \E ct \in CropTypeInputs, d \in PlantedDaysAgo, h \in {0, 1},
          yield_estimate \in YieldEstimates, growth_rate \in GrowthRates :
          advanced' = update_crop_progress([type |-> ct, planted_date |-> now - 2 * d - h,
                                            yield_estimate |-> yield_estimate],
                                           growth_rate, now)
    /\ UNCHANGED <<now, next_uuid, call_vars, service_vars, farm_vars, weather_vars, soil, store_vars>>

(***************************************************************************)
(* FarmService (services/farm_service.py) and the request handlers of      *)
(* main.py.  farm_file, sensor_file and alerts_file are the contents of    *)
(* data/farm_data.json, data/sensor_data.json and data/alerts.json.  A     *)
(* response keeps the operation, the HTTP status code, the body, and       *)
(* whether the handler read and wrote the farm document.                   *)
(***************************************************************************)
Response(op, code, body, farm_read, farm_written) ==
    [op |-> op, code |-> code, body |-> body, farm_read |-> farm_read,
     farm_written |-> farm_written]

NoBody == [detail |-> ""]

\* the number of plots whose irrigation_status is true
irrigated_plots(plots) == Cardinality({i \in DOMAIN plots : plots[i].irrigation_status})

\* productivity_metrics of FarmService.generate_analytics_report: ok is FALSE
\* when a division by len(farm_data["plots"]) raised ZeroDivisionError.  The
\* summaries of the report that count statuses and severities or average the
\* recent readings (under their own `if recent_data` guard) are left out.
generate_analytics_report(farm_data) ==
    LET plots == farm_data.plots
        num == Len(plots)
        yields == [i \in DOMAIN plots |-> plots[i].crop.yield_estimate]
        per_hectare == [i \in DOMAIN plots |-> plots[i].crop.yield_per_hectare]
    IN  IF num = 0
        THEN [ok |-> FALSE, error |-> "ZeroDivisionError",
              productivity_metrics |->
                  [total_estimated_yield |-> 0, avg_yield_per_hectare |-> 0,
                   irrigation_coverage |-> 0]]
        ELSE [ok |-> TRUE, error |-> "",
              productivity_metrics |->
                  [total_estimated_yield |-> SumTo(yields, num),
                   avg_yield_per_hectare |-> Round(Norm(SumTo(per_hectare, num), num)),
                   irrigation_coverage |->
                       Round(Norm(irrigated_plots(plots) * 1000, num))]]

\* GET /api/analytics: the report, or 500 with the text of the exception
GetAnalytics ==
    /\ LET made == generate_analytics_report(farm_file)
       IN  response' = IF made.ok
                       THEN Response("get_analytics", 200, made.productivity_metrics,
                                     TRUE, FALSE)
                       ELSE Response("get_analytics", 500, [detail |-> made.error],
                                     TRUE, FALSE)
    /\ UNCHANGED <<now, next_uuid, call_vars, service_vars, farm_vars, weather_vars, sample_vars,
                   farm_file, sensor_file, alerts_file, readings_made, alerts_made,
                   requests>>

\* the statuses of all equipment of all plots
RECURSIVE all_equipment_statuses(_)
all_equipment_statuses(plots) ==
    IF plots = <<>> THEN <<>>
    ELSE [k \in DOMAIN plots[1].equipment |-> plots[1].equipment[k].status]
         \o all_equipment_statuses(Tail(plots))

\* the figures of get_performance_analytics that come from the farm document
\* (areas in hundredths, shares in tenths of a percent); the environmental
\* score, which comes from the readings, is left out
performance_metrics(farm_data) ==
    LET plots == farm_data.plots
        total_yield == SumTo([i \in DOMAIN plots |-> plots[i].crop.yield_estimate],
                             Len(plots))
        statuses == all_equipment_statuses(plots)
        operational_equipment ==
            Cardinality({k \in DOMAIN statuses : statuses[k] = "operational"})
    IN  [total_yield_estimate |-> total_yield,
         avg_yield_per_hectare |->
             IF farm_data.total_area > 0
             THEN Round(Norm(total_yield * 100, farm_data.total_area)) ELSE 0,
         equipment_efficiency |->
             IF statuses # <<>>
             THEN Round(Norm(operational_equipment * 1000, Len(statuses))) ELSE 0,
         irrigation_coverage |->
             IF plots # <<>>
             THEN Round(Norm(irrigated_plots(plots) * 1000, Len(plots))) ELSE 0]

\* GET /api/analytics/performance
GetPerformanceAnalytics ==
    /\ response' = Response("get_performance_analytics", 200,
                            performance_metrics(farm_file), TRUE, FALSE)
    /\ UNCHANGED <<now, next_uuid, call_vars, service_vars, farm_vars, weather_vars, sample_vars,
                   farm_file, sensor_file, alerts_file, readings_made, alerts_made,
                   requests>>

(***************************************************************************)
(* Sensor readings: generate_sensor_reading,                               *)
(* generate_historical_sensor_data, FarmService.get_sensor_data and        *)
(* generate_live_sensor_data.  A reading keeps sensor_id, plot_id and      *)
(* timestamp; the measured values, all draws of random, are stood for by   *)
(* the serial number of the reading.  A timestamp is in half days, so an   *)
(* offset of 6 or 18 hours is cut to the half day before it.               *)
(***************************************************************************)
generate_sensor_reading(sensor_id, plot_id, t, time_offset_hours, serial) ==
    [sensor_id |-> sensor_id, plot_id |-> plot_id,
     timestamp |-> shifted(t, time_offset_hours),    \* weather_data["time"]
     serial |-> serial]

\* the readings of `days` days, four a day, for each sensor of a plot: day by
\* day, hour by hour, sensor by sensor
generate_historical_sensor_data(sensor_ids, plot_id, days, t, serial) ==
    LET per_hour == Len(sensor_ids)
    IN  [n \in 1 .. days * 4 * per_hour |->
            LET day == (n - 1) \div (4 * per_hour)
                hour == 6 * (((n - 1) \div per_hour) % 4)
                time_offset == -(days - day) * 24 + hour
            IN  generate_sensor_reading(sensor_ids[((n - 1) % per_hour) + 1], plot_id, t,
                                        time_offset, serial + n)]

\* data[-limit:] of Python: the last `limit` elements, the whole list for a
\* limit of 0, the list without its first -limit elements for a negative one
slice_from_end(data, limit) ==
    IF limit = 0 THEN data
    ELSE IF limit > 0 THEN SubSeq(data, Max(1, Len(data) - limit + 1), Len(data))
    ELSE SubSeq(data, Min(Len(data), -limit) + 1, Len(data))

\* FarmService.get_sensor_data; sensor_id = None asks for every sensor
get_sensor_data(file, sensor_id, limit) ==
    IF sensor_id # None
    THEN slice_from_end(SelectSeq(file, LAMBDA data : data.sensor_id = sensor_id[1]), limit)
    ELSE slice_from_end(file, limit)

\* the number of readings kept
sensor_retention == 1000

\* the pairs <<plot id, sensor id>> of a farm, plot by plot
RECURSIVE plot_sensors(_)
plot_sensors(plots) ==
    IF plots = <<>> THEN <<>>
    ELSE [k \in DOMAIN plots[1].sensors |-> <<plots[1].id, plots[1].sensors[k]>>]
         \o plot_sensors(Tail(plots))

\* the readings generate_live_sensor_data makes: one per sensor, no offset
live_data_of(farm_data, t, serial) ==
    LET pairs == plot_sensors(farm_data.plots)
    IN  [n \in DOMAIN pairs |->
            generate_sensor_reading(pairs[n][2], pairs[n][1], t, 0, serial + n)]

generate_live_sensor_data_DefaultLimit(farm_data, file, t, serial) ==
    LET existing_data == get_sensor_data(file, None, 100)
        all_data == existing_data \o live_data_of(farm_data, t, serial)
    IN  IF Len(all_data) > sensor_retention
        THEN slice_from_end(all_data, sensor_retention)
        ELSE all_data

\* what generate_live_sensor_data writes to the sensor file
generate_live_sensor_data(farm_data, file, t, serial) ==
    LET existing_data == get_sensor_data(file, None, sensor_retention)
        all_data == existing_data \o live_data_of(farm_data, t, serial)
    IN  IF Len(all_data) > sensor_retention
        THEN slice_from_end(all_data, sensor_retention)
        ELSE all_data

MaxReadingsMade == 1300

\* LiveDataService.update_sensor_data: one tick of the live simulation
UpdateSensorData ==
    /\ readings_made < MaxReadingsMade
    /\ sensor_file' = generate_live_sensor_data(farm_file, sensor_file, now, readings_made)
    /\ readings_made' = readings_made + Len(plot_sensors(farm_file.plots))
    /\ UNCHANGED <<now, next_uuid, call_vars, service_vars, farm_vars, weather_vars, sample_vars,
                   farm_file, alerts_file, alerts_made, requests, response>>

\* the limits asked for: none, few, the default and the number kept
LimitInputs == {0, 1, 2, 50, 100, 1000}

\* the sensors asked for: the first sensor of the first two plots and an id
\* no sensor has
SensorIdInputs ==
    {farm_file.plots[i].sensors[1] : i \in DOMAIN farm_file.plots \cap {1, 2}} \cup {0}

\* GET /api/sensors/{sensor_id}: 404 when the service returns no reading.  The
\* response also records the request it answers.
GetSensorData ==
    /\ \E sensor_id \in SensorIdInputs, limit \in LimitInputs :
          LET data == get_sensor_data(sensor_file, Some(sensor_id), limit)
              request == [request |-> [sensor_id |-> Some(sensor_id), limit |-> limit]]
          IN  response' = (IF data = <<>>
                           THEN Response("get_sensor_data", 404,
                                         [detail |-> "No data found for this sensor",
                                          data |-> data], FALSE, FALSE)
                           ELSE Response("get_sensor_data", 200, [data |-> data],
                                         FALSE, FALSE))
                          @@ request
    /\ UNCHANGED <<now, next_uuid, call_vars, service_vars, farm_vars, weather_vars, sample_vars,
                   farm_file, sensor_file, alerts_file, readings_made, alerts_made, requests>>

\* GET /api/sensors
GetAllSensorData ==
    /\ \E limit \in LimitInputs :
          response' = Response("get_all_sensor_data", 200,
                               [data |-> get_sensor_data(sensor_file, None, limit)],
                               FALSE, FALSE)
                      @@ [request |-> [sensor_id |-> None, limit |-> limit]]
    /\ UNCHANGED <<now, next_uuid, call_vars, service_vars, farm_vars, weather_vars, sample_vars,
                   farm_file, sensor_file, alerts_file, readings_made, alerts_made, requests>>

(***************************************************************************)
(* Alerts: FarmService.add_alert, LiveDataService.check_alerts and the     *)
(* handlers of POST /api/alerts and POST /api/dev/simulate-alert.          *)
(***************************************************************************)
\* the equipment of all plots, plot by plot
RECURSIVE all_equipment_of(_)
all_equipment_of(plots) ==
    IF plots = <<>> THEN <<>> ELSE plots[1].equipment \o all_equipment_of(Tail(plots))

\* the number of alerts kept
alert_retention == 100

add_alert_NoCap(alerts, alert) == Append(alerts, alert)

\* what add_alert writes to the alerts file
add_alert(alerts, alert) ==
    LET appended == Append(alerts, alert)
    IN  IF Len(appended) > alert_retention
        THEN slice_from_end(appended, alert_retention)
        ELSE appended

\* for alert in new_alerts: self.farm_service.add_alert(alert); the alerts are
\* added one by one in their order, those of the second half of the list to
\* the file that those of the first half left (which is not empty)
RECURSIVE add_alerts(_, _)
add_alerts(alerts, new_alerts) ==
    LET n == Len(new_alerts)
    IN  IF n = 0 THEN alerts
        ELSE IF n = 1 THEN add_alert(alerts, new_alerts[1])
        ELSE LET written == add_alerts(alerts, SubSeq(new_alerts, 1, n \div 2))
             IN  IF written = <<>> THEN written
                 ELSE add_alerts(written, SubSeq(new_alerts, n \div 2 + 1, n))

MaxAlertsMade == 110

\* LiveDataService.check_alerts: the periodic check of the live simulation
CheckAlerts ==
    /\ alerts_made < MaxAlertsMade
    /\ LET new_alerts == simulate_equipment_alerts(all_equipment_of(farm_file.plots), now,
                                                   next_uuid)
       IN  /\ alerts_file' = add_alerts(alerts_file, new_alerts)
           /\ alerts_made' = alerts_made + Len(new_alerts)
           /\ next_uuid' = next_uuid + Len(new_alerts)
    /\ UNCHANGED <<now, call_vars, service_vars, farm_vars, weather_vars, sample_vars, farm_file,
                   sensor_file, readings_made, requests, response>>

\* the bodies posted to /api/alerts: one without id and timestamp, one with
\* both (ids chosen by clients are negative, apart from those of uuid4)
PostedAlerts ==
    {[type |-> "weather", severity |-> "low", message |-> <<"Storm expected">>],
     [id |-> -1, type |-> "pest", severity |-> "high", message |-> <<"Locusts">>,
      timestamp |-> 0]}

MaxAlertRequests == 2

\* POST /api/alerts
CreateAlert ==
    /\ requests < MaxAlertRequests
    /\ alerts_made < MaxAlertsMade
    /\ \E alert_data \in PostedAlerts :
          LET stamped == IF "timestamp" \in DOMAIN alert_data THEN alert_data
                         ELSE alert_data @@ [timestamp |-> now]
              identified == IF "id" \in DOMAIN stamped THEN stamped
                            ELSE stamped @@ [id |-> next_uuid]
          IN  /\ alerts_file' = add_alert(alerts_file, identified)
              /\ next_uuid' = IF "id" \in DOMAIN stamped THEN next_uuid ELSE next_uuid + 1
              /\ response' = Response("create_alert", 200, [alert_id |-> identified.id],
                                      FALSE, FALSE)
    /\ alerts_made' = alerts_made + 1
    /\ requests' = requests + 1
    /\ UNCHANGED <<now, call_vars, service_vars, farm_vars, weather_vars, sample_vars, farm_file,
                   sensor_file, readings_made>>

\* the alert types asked of /api/dev/simulate-alert
SimulatedTypes == {"maintenance"}

\* POST /api/dev/simulate-alert
SimulateAlert ==
    /\ requests < MaxAlertRequests
    /\ alerts_made < MaxAlertsMade
    /\ \E alert_type \in SimulatedTypes :
          LET alert == [id |-> next_uuid, type |-> alert_type, severity |-> "medium",
                        message |-> <<"Simulated", alert_type, "alert for testing">>,
                        timestamp |-> now, equipment_id |-> "test-equipment",
                        action_required |-> "Test alert - no action needed"]
          IN  /\ alerts_file' = add_alert(alerts_file, alert)
              /\ response' = Response("simulate_alert", 200, [alert |-> alert], FALSE, FALSE)
    /\ next_uuid' = next_uuid + 1
    /\ alerts_made' = alerts_made + 1
    /\ requests' = requests + 1
    /\ UNCHANGED <<now, call_vars, service_vars, farm_vars, weather_vars, sample_vars, farm_file,
                   sensor_file, readings_made>>

(***************************************************************************)
(* Plots: FarmService.update_plot_status and toggle_irrigation, and the    *)
(* handlers of PUT /api/plots/{plot_id}/status, PUT                        *)
(* /api/plots/{plot_id}/irrigation and POST /api/dev/regenerate-data.  A   *)
(* response to a plot request also records the request it answers and the  *)
(* message the handler hands to manager.broadcast (None when it does not   *)
(* call it); the sends of a broadcast are the steps of BroadcastCalled and *)
(* BroadcastResumes.                                                       *)
(***************************************************************************)
\* the first plot with the id, 0 when the loop finds none
first_plot(plots, plot_id) ==
    LET matching == {k \in DOMAIN plots : plots[k].id = plot_id}
    IN  IF matching = {} THEN 0
        ELSE CHOOSE k \in matching : \A j \in matching : k <= j

\* FarmService.update_plot_status: success is what it returns, saved whether
\* it wrote the document, which it loads in any case
update_plot_status(farm_data, plot_id, status, t) ==
    LET k == first_plot(farm_data.plots, plot_id)
    IN  IF k = 0 THEN [success |-> FALSE, saved |-> FALSE, farm_data |-> farm_data]
        ELSE [success |-> TRUE, saved |-> TRUE,
              farm_data |->
                  [farm_data EXCEPT
                      !.plots[k] = [last_updated |-> t] @@ [@ EXCEPT !.status = status]]]

toggle_irrigation_SwitchOn(farm_data, plot_id, t) ==
    LET k == first_plot(farm_data.plots, plot_id)
    IN  IF k = 0 THEN [success |-> FALSE, saved |-> FALSE, farm_data |-> farm_data]
        ELSE [success |-> TRUE, saved |-> TRUE,
              farm_data |->
                  [farm_data EXCEPT
                      !.plots[k] = [last_updated |-> t]
                                   @@ [@ EXCEPT !.irrigation_status = TRUE]]]

\* FarmService.toggle_irrigation
toggle_irrigation(farm_data, plot_id, t) ==
    LET k == first_plot(farm_data.plots, plot_id)
    IN  IF k = 0 THEN [success |-> FALSE, saved |-> FALSE, farm_data |-> farm_data]
        ELSE [success |-> TRUE, saved |-> TRUE,
              farm_data |->
                  [farm_data EXCEPT
                      !.plots[k] = [last_updated |-> t]
                                   @@ [@ EXCEPT !.irrigation_status = ~@]]]

valid_statuses_WithFallow == {"active", "maintenance", "harvesting", "idle", "fallow"}

valid_statuses == {"active", "maintenance", "harvesting", "idle"}

\* status_data.get("status")
status_of(status_data) ==
    IF "status" \in DOMAIN status_data THEN Some(status_data.status) ELSE None

\* `not status`: None and the empty string are falsy
status_missing(status) == status = None \/ status[1] = ""

\* the bodies of a status update: no status, an empty one, one outside the
\* valid statuses in two spellings, and the valid ones
NoStatus == [key \in {} |-> ""]

StatusBodies ==
    {NoStatus} \cup {[status |-> s] : s \in {"", "fallow", "Active"} \cup valid_statuses}

\* the plot ids asked for: those of the first two plots and one of no plot
PlotIdInputs == {farm_file.plots[k].id : k \in DOMAIN farm_file.plots \cap {1, 2}} \cup {0}

\* PUT /api/plots/{plot_id}/status
UpdatePlotStatus ==
    /\ \E plot_id \in PlotIdInputs, status_data \in StatusBodies :
          LET status == status_of(status_data)
              request == [request |-> [plot_id |-> plot_id, status_data |-> status_data]]
              silent == request @@ [broadcast |-> None]
              updated == update_plot_status(farm_file, plot_id, status[1], now)
          IN  IF status_missing(status)
              THEN /\ response' = Response("update_plot_status", 400,
                                           [detail |-> "Status is required"], FALSE, FALSE)
                                  @@ silent
                   /\ farm_file' = farm_file
              ELSE IF status[1] \notin valid_statuses
              THEN /\ response' = Response("update_plot_status", 400,
                                           [detail |-> "Invalid status"], FALSE, FALSE)
                                  @@ silent
                   /\ farm_file' = farm_file
              ELSE IF ~updated.success
              THEN /\ response' = Response("update_plot_status", 404,
                                           [detail |-> "Plot not found"], TRUE, FALSE)
                                  @@ silent
                   /\ farm_file' = farm_file
              ELSE /\ response' = Response("update_plot_status", 200,
                                           [plot_id |-> plot_id, new_status |-> status[1]],
                                           TRUE, updated.saved)
                                  @@ request
                                  @@ [broadcast |->
                                         Some([type |-> "plot_update", plot_id |-> plot_id,
                                               status |-> status[1], timestamp |-> now])]
                   /\ farm_file' = updated.farm_data
    /\ UNCHANGED <<now, next_uuid, call_vars, service_vars, farm_vars, weather_vars, sample_vars,
                   sensor_file, alerts_file, readings_made, alerts_made, requests>>

\* PUT /api/plots/{plot_id}/irrigation
ToggleIrrigation ==
    /\ \E plot_id \in PlotIdInputs :
          LET toggled == toggle_irrigation(farm_file, plot_id, now)
              k == first_plot(toggled.farm_data.plots, plot_id)
          IN  IF ~toggled.success
              THEN /\ response' = Response("toggle_irrigation", 404,
                                           [detail |-> "Plot not found"], TRUE, FALSE)
                                  @@ [request |-> [plot_id |-> plot_id],
                                      broadcast |-> None]
                   /\ farm_file' = farm_file
              ELSE /\ response' = Response("toggle_irrigation", 200,
                                           [plot_id |-> plot_id,
                                            irrigation_status |->
                                                toggled.farm_data.plots[k].irrigation_status],
                                           TRUE, toggled.saved)
                                  @@ [request |-> [plot_id |-> plot_id],
                                      broadcast |->
                                         Some([type |-> "irrigation_update",
                                               plot_id |-> plot_id,
                                               irrigation_status |->
                                                   toggled.farm_data.plots[k]
                                                       .irrigation_status,
                                               timestamp |-> now])]
                   /\ farm_file' = toggled.farm_data
    /\ UNCHANGED <<now, next_uuid, call_vars, service_vars, farm_vars, weather_vars, sample_vars,
                   sensor_file, alerts_file, readings_made, alerts_made, requests>>

\* POST /api/dev/regenerate-data: a new farm replaces the document; when the
\* generation raised, nothing is saved
RegenerateFarmData ==
    /\ random_draws # <<>>
    /\ LET made == generate_complete_farm(Head(random_draws), now, next_uuid)
       IN  IF made.ok
           THEN /\ farm_file' = made.document
                /\ response' = Response("regenerate_farm_data", 200,
                                        [total_plots |-> Len(made.document.plots)],
                                        FALSE, TRUE)
           ELSE /\ farm_file' = farm_file
                /\ response' = Response("regenerate_farm_data", 500, NoBody, FALSE, FALSE)
    /\ next_uuid' = next_uuid + farm_uuids(Head(random_draws))
    /\ random_draws' = Tail(random_draws)
    /\ UNCHANGED <<now, call_vars, service_vars, farm, weather_vars, sample_vars, sensor_file,
                   alerts_file, readings_made, alerts_made, requests>>

(***************************************************************************)
(* generate_sample_data.py, generate_complete_dataset: a farm, 30 days of  *)
(* readings for every plot and the alerts of all equipment, each written   *)
(* to its file.  The forecast and the statistics it also writes, which no  *)
(* operation of the model reads, are left out.                             *)
(***************************************************************************)
history_days == 30

RECURSIVE all_historical_data(_, _, _)
all_historical_data(plots, t, serial) ==
    IF plots = <<>> THEN <<>>
    ELSE LET historical_data ==
                 generate_historical_sensor_data(plots[1].sensors, plots[1].id,
                                                 history_days, t, serial)
         IN  historical_data
             \o all_historical_data(Tail(plots), t, serial + Len(historical_data))

GenerateSampleData ==
    /\ random_draws # <<>>
    /\ LET made == generate_complete_farm(Head(random_draws), now, next_uuid)
           farm_data == made.document
           alert_uuid == next_uuid + farm_uuids(Head(random_draws))
           all_sensor_data == all_historical_data(farm_data.plots, now, readings_made)
           alerts == simulate_equipment_alerts(all_equipment_of(farm_data.plots), now,
                                               alert_uuid)
       IN  /\ made.ok
           /\ farm_file' = farm_data
           /\ sensor_file' = all_sensor_data
           /\ readings_made' = readings_made + Len(all_sensor_data)
           /\ alerts_file' = alerts
           /\ alerts_made' = alerts_made + Len(alerts)
           /\ next_uuid' = alert_uuid + Len(alerts)
    /\ random_draws' = Tail(random_draws)
    /\ UNCHANGED <<now, call_vars, service_vars, farm, weather_vars, sample_vars, requests, response>>

(***************************************************************************)
(* Initial states and specifications.  Each specification exercises one    *)
(* part of the engine and holds the rest of the state at its initial value. *)
(***************************************************************************)
NoSeason == [called |-> FALSE, month |-> 0, season |-> "", by_default |-> FALSE]
NoGrowth == [called |-> FALSE, ok |-> TRUE, value |-> Rat(0), divided |-> FALSE]
NoCall == [made |-> FALSE, time |-> 0, alerts |-> <<>>]
NoEquipment ==
    [made |-> FALSE,
     record |-> [id |-> 0, name |-> "", type |-> "", status |-> "",
                 last_maintenance |-> 0, fuel_level |-> None, efficiency |-> 0]]
NoCropMade ==
    [made |-> FALSE, ok |-> TRUE, error |-> "",
     args |-> [crop_type |-> "", plot_area |-> 0, days |-> 0], record |-> NoCrop]

NoFarm == [made |-> FALSE, ok |-> TRUE, document |-> NoFarmDocument]

\* nothing drawn, generated or stored yet
NoWeather == [made |-> FALSE, offset |-> 0, called_at |-> 0, season |-> "", time |-> 0]
NoForecast == [made |-> FALSE, days |-> 0, called_at |-> 0, entries |-> <<>>]

\* nothing sampled or forecast yet
WeatherIdle ==
    /\ weather = NoWeather
    /\ forecast = NoForecast

NoSoil ==
    [made |-> FALSE,
     args |-> [crop_type |-> "", rainfall |-> 0, season |-> "", high_base |-> FALSE,
               high_modifier |-> FALSE, high_ph |-> FALSE],
     sample |-> [soil_moisture |-> 0, ph_level |-> 0]]
NoAdvance ==
    [made |-> FALSE, ok |-> TRUE, error |-> "",
     args |-> [crop_data |-> [type |-> "", planted_date |-> 0, yield_estimate |-> 0],
               growth_rate |-> Rat(0), days_since_planted |-> 0],
     record |-> NoProgress]

\* no soil sampled and no crop advanced yet
SampleIdle ==
    /\ soil = NoSoil
    /\ advanced = NoAdvance

NoResponse == Response("", 0, NoBody, FALSE, FALSE)

\* no farm document, reading or alert kept and no request answered yet
StoreIdle ==
    /\ farm_file = NoFarmDocument
    /\ sensor_file = <<>>
    /\ alerts_file = <<>>
    /\ readings_made = 0
    /\ alerts_made = 0
    /\ requests = 0
    /\ response = NoResponse

\* the live simulation not started
LoopIdle ==
    /\ wall_clock = 0
    /\ live = [is_running |-> FALSE, iterations |-> 0]
    /\ alert_checks = <<>>
    /\ weather_updates = <<>>

\* the websockets that connect while the service runs
Connections == 1 .. 3

\* the calls of broadcast: the first by the broadcast task, the second by a
\* request handler
Broadcasts == 1 .. 2

\* a call of broadcast not made yet
NoBroadcast ==
    [status |-> "idle", message |-> "", index |-> 0, sent |-> <<>>, disconnected |-> <<>>,
     stayed |-> {}]

\* no websocket has connected and nothing has been broadcast
SocketIdle ==
    /\ sockets = [c \in Connections |-> "new"]
    /\ active_connections = <<>>
    /\ broadcasts = [b \in Broadcasts |-> NoBroadcast]

ServiceIdle == LoopIdle /\ SocketIdle

RestIdle ==
    /\ random_draws = <<>>
    /\ farm = NoFarm
    /\ WeatherIdle
    /\ SampleIdle
    /\ StoreIdle
    /\ ServiceIdle

\* no call of a deriving or generating operation made yet
CallIdle ==
    /\ season = NoSeason
    /\ sensor_data = <<>>
    /\ crop_type = "rice"
    /\ growth = NoGrowth
    /\ equipment_list = <<>>
    /\ last_call = NoCall
    /\ prev_call = NoCall
    /\ equipment = NoEquipment
    /\ crop = NoCropMade

EngineIdle == CallIdle /\ next_uuid = 1

Idle == EngineIdle /\ RestIdle

\* ---- the season of the current month -----------------------------------
Init ==
    /\ now \in 0 .. StartOfClock
    /\ Idle

Next == get_current_season \/ Tick

Spec == Init /\ [][Next]_vars

\* ---- the growth rate of a window of readings ----------------------------
MaxWindow == 3

\* readings in tenths: the middle and both ends of every optimal band, values
\* just outside, far outside, zero and negative ones
Reading(t, h, m, p, r) ==
    [temperature |-> t, humidity |-> h, soil_moisture |-> m, ph_level |-> p, rainfall |-> r]

ReadingSet ==
    {Reading(280, 750, 800, 65, 100),
     Reading(260, 700, 700, 60, 50),
     Reading(300, 850, 900, 70, 150),
     Reading(310, 860, 690, 71, 0),
     Reading(200, 500, 300, 50, 0),
     Reading(2000, 3000, 3000, 200, 5000),
     Reading(-50, 0, 0, 0, 0)}

RECURSIVE Windows(_)
Windows(n) ==
    IF n = 0 THEN {<<>>}
    ELSE LET shorter == Windows(n - 1)
         IN  shorter \cup {Append(w, r) : w \in {v \in shorter : Len(v) = n - 1},
                                          r \in ReadingSet}

InitGrowth ==
    /\ now = StartOfClock
    /\ season = NoSeason
    /\ sensor_data \in Windows(MaxWindow)
    /\ crop_type \in CropTypeInputs
    /\ growth = NoGrowth
    /\ equipment_list = <<>>
    /\ last_call = NoCall
    /\ prev_call = NoCall
    /\ next_uuid = 1
    /\ equipment = NoEquipment
    /\ crop = NoCropMade
    /\ RestIdle

NextGrowth == CalculateGrowthRate

SpecGrowth == InitGrowth /\ [][NextGrowth]_vars

\* ---- windows longer than the recent window -------------------------------
MaxEarlier == 2

\* a reading with its timestamp, which calculate_growth_rate does not read
Stamped(r, timestamp) == r @@ [timestamp |-> timestamp]

\* the entries before the recent window: far off every band, negative, and
\* optimal; stamped now, long ago and in the future
EarlierReadings ==
    {Stamped(Reading(2000, 3000, 3000, 200, 5000), StartOfClock),
     Stamped(Reading(-50, 0, 0, 0, 0), 0),
     Stamped(Reading(280, 750, 800, 65, 100), StartOfClock + 60)}

RECURSIVE EarlierEntries(_)
EarlierEntries(n) ==
    IF n = 0 THEN {<<>>}
    ELSE LET shorter == EarlierEntries(n - 1)
         IN  shorter \cup {Append(w, r) : w \in {v \in shorter : Len(v) = n - 1},
                                          r \in EarlierReadings}

\* the last 168 entries: k readings a, a year old, then readings b, stamped
\* out of order
RecentEntries ==
    {[i \in 1 .. WindowSize |->
         IF i <= k THEN Stamped(a, StartOfClock - 2 * 365)
                   ELSE Stamped(b, StartOfClock - i)] :
        k \in {0, 1, WindowSize - 1},
        a \in {Reading(310, 860, 690, 71, 0), Reading(200, 500, 300, 50, 0)},
        b \in {Reading(280, 750, 800, 65, 0), Reading(300, 850, 900, 70, 1)}}

InitWindow ==
    /\ now = StartOfClock
    /\ season = NoSeason
    /\ sensor_data \in {earlier \o recent : earlier \in EarlierEntries(MaxEarlier),
                                            recent \in RecentEntries}
    /\ crop_type \in {"rice", "durian", "wheat"}
    /\ growth = NoGrowth
    /\ equipment_list = <<>>
    /\ last_call = NoCall
    /\ prev_call = NoCall
    /\ next_uuid = 1
    /\ equipment = NoEquipment
    /\ crop = NoCropMade
    /\ RestIdle

SpecWindow == InitWindow /\ [][NextGrowth]_vars

\* ---- the alerts of an equipment list ------------------------------------
MaxEquipment == 2

\* how long before the start of the clock an item was last maintained (in half
\* days: 60, 61 and 90.5 days), its fuel level and its efficiency (in tenths)
MaintenanceAges == {120, 122, 181}
FuelLevels == {None, Some(0), Some(15), Some(16), Some(24), Some(25)}
Efficiencies == {799, 800}

ItemNames == <<"Kubota M7040", "Rice Harvester", "DJI Agras", "Drip System">>

Item(i, age, fuel, eff) ==
    [id |-> 100 + i, name |-> ItemNames[((i - 1) % Len(ItemNames)) + 1], type |-> "tractor",
     status |-> "operational", last_maintenance |-> StartOfClock - age,
     fuel_level |-> fuel, efficiency |-> eff]

RECURSIVE EquipmentLists(_)
EquipmentLists(n) ==
    IF n = 0 THEN {<<>>}
    ELSE LET shorter == EquipmentLists(n - 1)
         IN  shorter \cup {Append(l, Item(n, age, fuel, eff)) :
                              l \in {v \in shorter : Len(v) = n - 1},
                              age \in MaintenanceAges, fuel \in FuelLevels,
                              eff \in Efficiencies}

InitAlerts ==
    /\ now = StartOfClock
    /\ season = NoSeason
    /\ sensor_data = <<>>
    /\ crop_type = "rice"
    /\ growth = NoGrowth
    /\ equipment_list \in EquipmentLists(MaxEquipment)
    /\ last_call = NoCall
    /\ prev_call = NoCall
    /\ next_uuid = 1
    /\ equipment = NoEquipment
    /\ crop = NoCropMade
    /\ RestIdle

NextAlerts == SimulateEquipmentAlerts \/ Tick

SpecAlerts == InitAlerts /\ [][NextAlerts]_vars

\* ---- the generators -----------------------------------------------------
\* A generator call reads nothing an earlier call wrote (but the uuid source), so
\* the calls from the initial state are all the calls there are.
InitGenerators ==
    /\ now = StartOfClock
    /\ Idle

NextEquipment == GenerateEquipmentData

SpecEquipment == InitGenerators /\ [][NextEquipment]_vars

NextCrop == GenerateCropData

SpecCrop == InitGenerators /\ [][NextCrop]_vars

\* ---- a complete farm ------------------------------------------------------
\* the draws of one piece of equipment
EquipmentDraw(type, name, status, days_back, fuel_draw, efficiency) ==
    [type |-> type, name |-> name, status |-> status, days_back |-> days_back,
     fuel_draw |-> fuel_draw, efficiency |-> efficiency]

\* the equipment of a plot: one to four pieces, with and without one in repair
PlotEquipmentDraws ==
    {<<EquipmentDraw("irrigation", "Drip System", "operational", 60, 0, 800)>>,
     <<EquipmentDraw("tractor", "Kubota M7040", "maintenance", 61, 24, 750),
       EquipmentDraw("drone", "DJI Agras", "repair", 1, 0, 980)>>,
     <<EquipmentDraw("harvester", "Rice Harvester", "idle", 90, 25, 980),
       EquipmentDraw("sensor", "Soil Sensor", "operational", 1, 0, 800),
       EquipmentDraw("tractor", "John Deere 5E", "maintenance", 60, 100, 750),
       EquipmentDraw("irrigation", "Smart Irrigation", "idle", 61, 0, 980)>>}

\* area (hundredths of a hectare, the ends of uniform(0.5, 5.0) and a value
\* between) and number of sensors (randint(2, 5))
PlotSizeDraws == {<<50, 2>>, <<123, 3>>, <<500, 5>>}

\* crop type, variety and days since planting: a rice plot in its last
\* reachable stage, a ripening durian plot and a banana plot at harvest
PlotCropDraws == {<<"rice", "MR220", 90>>, <<"durian", "D24", 90>>,
                  <<"banana", "Cavendish", 270>>}

\* the draws of one plot
PlotDraw(size, c, e, active, irrigation) ==
    [area |-> size[1], num_sensors |-> size[2], crop_type |-> c[1], variety |-> c[2],
     days |-> c[3], high_yield |-> FALSE, high_draw |-> FALSE, equipment |-> e,
     active |-> active, irrigation |-> irrigation]

PlotDrawSet ==
    {PlotDraw(size, c, e, active, irrigation) :
        size \in PlotSizeDraws, c \in PlotCropDraws, e \in PlotEquipmentDraws,
        active \in BOOLEAN, irrigation \in BOOLEAN}

\* the draws of a farm of n plots: a for the odd plots, b for the even ones
FarmDraw(n, a, b) == [i \in 1 .. n |-> IF i % 2 = 1 THEN a ELSE b]

FarmDraws ==
    {FarmDraw(n, a, b) : n \in num_plots_range, a \in PlotDrawSet,
                         b \in {d \in PlotDrawSet : d.active /\ ~d.irrigation}}

InitFarm ==
    /\ now = StartOfClock
    /\ season = NoSeason
    /\ sensor_data = <<>>
    /\ crop_type = "rice"
    /\ growth = NoGrowth
    /\ equipment_list = <<>>
    /\ last_call = NoCall
    /\ prev_call = NoCall
    /\ next_uuid = 1
    /\ equipment = NoEquipment
    /\ crop = NoCropMade
    /\ random_draws \in {<<d>> : d \in FarmDraws}
    /\ farm = NoFarm
    /\ WeatherIdle
    /\ SampleIdle
    /\ StoreIdle
    /\ ServiceIdle

NextFarm == GenerateCompleteFarm

SpecFarm == InitFarm /\ [][NextFarm]_vars

\* ---- weather samples and forecasts ---------------------------------------
\* every clock reading of the second year, so that an offset of 30 days back
\* stays on the clock
InitWeather ==
    /\ now \in StartOfClock .. 2 * StartOfClock
    /\ Idle

NextWeather == GenerateWeatherData \/ GenerateWeatherForecast

SpecWeather == InitWeather /\ [][NextWeather]_vars

\* ---- soil samples and crop advances --------------------------------------
NextSoil == GenerateSoilData

SpecSoil == InitGenerators /\ [][NextSoil]_vars

NextAdvance == UpdateCropProgress

SpecAdvance == InitGenerators /\ [][NextAdvance]_vars

\* ---- the analytics of a farm document -------------------------------------
\* the farm documents found in data/farm_data.json: generated farms of three
\* plots, the same farms with a total_area of 0, and a farm without plots
AnalyticsDraws ==
    LET draws == {d \in PlotDrawSet : d.active /\ d.area = 123 /\ d.crop_type = "rice"}
    IN  {FarmDraw(3, a, b) : a \in draws, b \in draws}

AnalyticsDocuments ==
    LET generated == {generate_complete_farm(d, StartOfClock, 1).document :
                         d \in AnalyticsDraws}
    IN  generated
        \cup {[d EXCEPT !.total_area = 0] : d \in generated}
        \cup {[d EXCEPT !.plots = <<>>, !.total_area = 0] : d \in generated}

InitAnalytics ==
    /\ now = StartOfClock
    /\ EngineIdle
    /\ random_draws = <<>>
    /\ farm = NoFarm
    /\ WeatherIdle
    /\ SampleIdle
    /\ farm_file \in AnalyticsDocuments
    /\ sensor_file = <<>>
    /\ alerts_file = <<>>
    /\ readings_made = 0
    /\ alerts_made = 0
    /\ requests = 0
    /\ response = NoResponse
    /\ ServiceIdle

NextAnalytics == GetAnalytics \/ GetPerformanceAnalytics

SpecAnalytics == InitAnalytics /\ [][NextAnalytics]_vars

\* ---- the sensor readings kept ---------------------------------------------
\* the farm generated when the service starts without a farm file (five plots
\* of five sensors) and the farms of the sample data: three plots of two
\* sensors (720 readings) and three plots of three sensors (1080 readings)
StartDraw ==
    FarmDraw(5, PlotDraw(<<500, 5>>, <<"rice", "MR220", 90>>,
                         <<EquipmentDraw("irrigation", "Drip System", "operational",
                                         60, 0, 800)>>, TRUE, TRUE),
                PlotDraw(<<500, 5>>, <<"durian", "D24", 90>>,
                         <<EquipmentDraw("tractor", "Kubota M7040", "maintenance",
                                         61, 24, 750)>>, TRUE, FALSE))

SampleDraws ==
    {FarmDraw(3, a, a) : a \in {d \in PlotDrawSet :
                                   /\ d.active /\ d.irrigation /\ d.area # 500
                                   /\ d.crop_type = "rice"
                                   /\ Len(d.equipment) = 1}}

\* the service has started: ensure_data_files has generated the farm from the
\* draws and written an empty list of readings and an empty list of alerts
StartedFiles(draws) ==
    /\ now = StartOfClock
    /\ CallIdle
    /\ farm = NoFarm
    /\ WeatherIdle
    /\ SampleIdle
    /\ farm_file = generate_complete_farm(draws, StartOfClock, 1).document
    /\ next_uuid = 1 + farm_uuids(draws)
    /\ sensor_file = <<>>
    /\ alerts_file = <<>>
    /\ readings_made = 0
    /\ alerts_made = 0
    /\ requests = 0
    /\ response = NoResponse

\* the service has started and its background tasks have not run yet
Started(draws) == StartedFiles(draws) /\ ServiceIdle

InitSensors ==
    /\ Started(StartDraw)
    /\ random_draws \in {<<d>> : d \in SampleDraws}

NextSensors == UpdateSensorData \/ GenerateSampleData

SpecSensors == InitSensors /\ [][NextSensors]_vars

\* ---- the alerts kept --------------------------------------------------------
\* the farm the service starts with has three plots, the farm of the sample
\* data eight; every plot has four tractors, each of them due for maintenance,
\* low on fuel and inefficient: three alerts for each piece of equipment, 96
\* for the 32 pieces a farm can have
WornTractor(name) == EquipmentDraw("tractor", name, "operational", 90, 24, 750)

AlertingPlot ==
    PlotDraw(<<50, 2>>, <<"rice", "MR220", 90>>,
             <<WornTractor("Kubota M7040"), WornTractor("John Deere 5E"),
               WornTractor("Massey Ferguson 385"), WornTractor("New Holland TD5")>>,
             TRUE, TRUE)

InitAlertLog ==
    /\ Started(FarmDraw(3, AlertingPlot, AlertingPlot))
    /\ random_draws = <<FarmDraw(8, AlertingPlot, AlertingPlot)>>

NextAlertLog == CheckAlerts \/ CreateAlert \/ SimulateAlert \/ GenerateSampleData

SpecAlertLog == InitAlertLog /\ [][NextAlertLog]_vars

\* the farms of the plot requests: three plots, among them one in repair, one
\* near harvest, one active and one idle
PlotsDraws ==
    {FarmDraw(3, a, b) :
        a \in {d \in PlotDrawSet :
                  /\ d.area = 50 /\ d.irrigation
                  /\ Len(d.equipment) \in {1, 2}
                  /\ d.crop_type = "rice"},
        b \in {d \in PlotDrawSet :
                  /\ d.area = 123 /\ ~d.irrigation /\ d.active
                  /\ Len(d.equipment) = 1
                  /\ d.crop_type = "banana"}}

InitPlots ==
    /\ \E draws \in PlotsDraws : Started(draws)
    /\ random_draws \in {<<d>> : d \in {p \in PlotsDraws : Len(p[1].equipment) = 2}}

NextPlots == UpdatePlotStatus \/ ToggleIrrigation \/ RegenerateFarmData

SpecPlots == InitPlots /\ [][NextPlots]_vars

\* ---- the readings returned ---------------------------------------------------
\* the sensor file after a number of ticks of the live simulation
RECURSIVE ticks_file(_, _, _)
ticks_file(farm_data, ticks, t) ==
    IF ticks = 0 THEN <<>>
    ELSE generate_live_sensor_data(farm_data, ticks_file(farm_data, ticks - 1, t), t,
                                   (ticks - 1) * Len(plot_sensors(farm_data.plots)))

MaxTicksKept == 5

\* the service after up to five ticks of the live simulation
InitReadings ==
    /\ now = StartOfClock
    /\ CallIdle
    /\ random_draws = <<>>
    /\ farm = NoFarm
    /\ WeatherIdle
    /\ SampleIdle
    /\ ServiceIdle
    /\ farm_file = generate_complete_farm(StartDraw, StartOfClock, 1).document
    /\ next_uuid = 1 + farm_uuids(StartDraw)
    /\ \E ticks \in 0 .. MaxTicksKept :
          /\ sensor_file = ticks_file(farm_file, ticks, now)
          /\ readings_made = ticks * Len(plot_sensors(farm_file.plots))
    /\ alerts_file = <<>>
    /\ alerts_made = 0
    /\ requests = 0
    /\ response = NoResponse

NextReadings == GetSensorData \/ GetAllSensorData

SpecReadings == InitReadings /\ [][NextReadings]_vars

\* ---- the status of the plots of a generated farm ---------------------------
\* the crop of a plot: every crop type with every number of days since
\* planting that random.randint(10, growth_cycle_days - 30) can return
HarvestCropDraws ==
    UNION {{<<ct, CHOOSE variety \in crop_data[ct].varieties : TRUE, days>> :
               days \in days_since_planted_range(crop_data[ct].growth_cycle_days)} :
           ct \in DOMAIN crop_data}

\* farms of three plots: the first and the third of any crop, with and without
\* equipment in repair; the second a durian plot 90 days after planting
HarvestDraws ==
    {FarmDraw(3, PlotDraw(<<50, 2>>, c, <<e>>, active, TRUE),
                 PlotDraw(<<50, 2>>, <<"durian", "D24", 90>>,
                          <<EquipmentDraw("irrigation", "Drip System", "operational",
                                          60, 0, 800)>>, TRUE, FALSE)) :
        c \in HarvestCropDraws,
        e \in {EquipmentDraw("irrigation", "Drip System", "operational", 60, 0, 800),
               EquipmentDraw("drone", "DJI Agras", "repair", 1, 0, 980)},
        active \in BOOLEAN}

InitHarvest ==
    /\ now = StartOfClock
    /\ EngineIdle
    /\ random_draws \in {<<d>> : d \in HarvestDraws}
    /\ farm = NoFarm
    /\ WeatherIdle
    /\ SampleIdle
    /\ StoreIdle
    /\ ServiceIdle

SpecHarvest == InitHarvest /\ [][NextFarm]_vars

\* ---- the alerts of freshly generated equipment ----------------------------
\* farms of three plots with one piece of equipment each, over the samples of
\* the maintenance, fuel and efficiency draws
FleetDraws ==
    {FarmDraw(3, a, a) :
        a \in {PlotDraw(<<50, 2>>, <<"rice", "MR220", 90>>,
                        <<EquipmentDraw(type, CHOOSE name \in equipment_names(type) : TRUE,
                                        "operational", days_back, fuel_draw, efficiency)>>,
                        TRUE, TRUE) :
                  <<type, fuel_draw>> \in
                      {p \in {"tractor", "harvester", "irrigation"} \X (FuelDraws \cup {0}) :
                          (p[2] = 0) = (p[1] \notin FuelledTypes)},
                  days_back \in MaintenanceDaysBack,
                  efficiency \in EfficiencyDraws}}

InitFleet ==
    /\ Started(StartDraw)
    /\ random_draws \in {<<d>> : d \in FleetDraws}

NextFleet == GenerateSampleData

SpecFleet == InitFleet /\ [][NextFleet]_vars

(***************************************************************************)
(* ConnectionManager and the websocket endpoint.  A websocket is new,      *)
(* open (accepted and in the list), closing (the client has gone, the      *)
(* endpoint has not yet seen WebSocketDisconnect) or closed.  A coroutine  *)
(* runs without interruption up to its next await; a broadcast is a step   *)
(* from one `await connection.send_text` to the next.  The for loop of     *)
(* broadcast iterates over the list itself: its iterator is the index of   *)
(* the next element, read from the list as it is when the loop resumes.    *)
(***************************************************************************)
\* self.active_connections.remove(websocket), if it is in the list
remove_connection(connections, websocket) ==
    SelectSeq(connections, LAMBDA c : c # websocket)

RECURSIVE remove_connections(_, _)
remove_connections(connections, disconnected) ==
    IF disconnected = <<>> THEN connections
    ELSE remove_connections(remove_connection(connections, disconnected[1]),
                            Tail(disconnected))

\* the connections of a sequence
Range(s) == {s[i] : i \in DOMAIN s}

\* ConnectionManager.connect at the start of websocket_endpoint
Connect ==
    /\ \E websocket \in Connections :
          /\ sockets[websocket] = "new"
          /\ sockets' = [sockets EXCEPT ![websocket] = "open"]
          /\ active_connections' = Append(active_connections, websocket)
    /\ UNCHANGED <<now, next_uuid, call_vars, farm_vars, weather_vars, sample_vars, store_vars,
                   loop_vars, broadcasts>>

\* the client goes away: a send to the websocket raises from now on
ClientCloses ==
    /\ \E websocket \in Connections :
          /\ sockets[websocket] = "open"
          /\ sockets' = [sockets EXCEPT ![websocket] = "closing"]
    /\ UNCHANGED <<now, next_uuid, call_vars, farm_vars, weather_vars, sample_vars, store_vars,
                   loop_vars, active_connections, broadcasts>>

\* a connection leaves the list: it has not stayed for the running broadcasts
left_during(calls, gone) ==
    [b \in DOMAIN calls |->
        IF calls[b].status = "running"
        THEN [calls[b] EXCEPT !.stayed = @ \ gone]
        ELSE calls[b]]

\* websocket_endpoint on WebSocketDisconnect: manager.disconnect(websocket)
Disconnect ==
    /\ \E websocket \in Connections :
          /\ sockets[websocket] = "closing"
          /\ sockets' = [sockets EXCEPT ![websocket] = "closed"]
          /\ active_connections' = remove_connection(active_connections, websocket)
          /\ broadcasts' = left_during(broadcasts, {websocket})
    /\ UNCHANGED <<now, next_uuid, call_vars, farm_vars, weather_vars, sample_vars, store_vars,
                   loop_vars>>

\* the for loop of broadcast up to its next await: the element at the
\* iterator's index is sent to; with no element left the loop ends, the
\* connections whose send raised are disconnected and the call returns
broadcast_resumed(call, connections, states) ==
    IF call.index < Len(connections)
    THEN LET connection == connections[call.index + 1]
         IN  IF states[connection] = "open"
             THEN [call EXCEPT !.index = @ + 1, !.sent = Append(@, connection)]
             ELSE [call EXCEPT !.index = @ + 1,
                               !.disconnected = Append(@, connection)]
    ELSE [call EXCEPT !.status = "done", !.stayed = @ \ Range(call.disconnected)]

connections_after(call, connections) ==
    IF call.index < Len(connections) THEN connections
    ELSE remove_connections(connections, call.disconnected)

\* the messages broadcast: the live data of the broadcast task and the update
\* of a request handler
message_of(b) == IF b = 1 THEN "live_update" ELSE "plot_update"

\* manager.broadcast(message) is called and runs to its first await
BroadcastCalled ==
    /\ \E b \in Broadcasts :
          /\ broadcasts[b].status = "idle"
          /\ \A earlier \in Broadcasts : earlier < b => broadcasts[earlier].status # "idle"
          /\ LET call == [NoBroadcast EXCEPT !.status = "running", !.message = message_of(b),
                                             !.stayed = Range(active_connections)]
                 resumed == broadcast_resumed(call, active_connections, sockets)
             IN  /\ broadcasts' = [left_during(broadcasts, Range(call.disconnected))
                                      EXCEPT ![b] = resumed]
                 /\ active_connections' = connections_after(call, active_connections)
    /\ UNCHANGED <<now, next_uuid, call_vars, farm_vars, weather_vars, sample_vars, store_vars,
                   loop_vars, sockets>>

\* a suspended broadcast resumes after its send and runs to its next await
BroadcastResumes ==
    /\ \E b \in Broadcasts :
          /\ broadcasts[b].status = "running"
          /\ LET call == broadcasts[b]
                 resumed == broadcast_resumed(call, active_connections, sockets)
                 removed == IF resumed.status = "done" THEN Range(call.disconnected) ELSE {}
             IN  /\ broadcasts' = [left_during(broadcasts, removed) EXCEPT ![b] = resumed]
                 /\ active_connections' = connections_after(call, active_connections)
    /\ UNCHANGED <<now, next_uuid, call_vars, farm_vars, weather_vars, sample_vars, store_vars,
                   loop_vars, sockets>>

\* one iteration of broadcast_live_data with a client connected, up to the
\* first await of its broadcast: the live readings are generated and stored,
\* then broadcast with the latest alerts.  The task awaits the broadcast, so
\* its previous one has returned.
BroadcastLiveData ==
    /\ active_connections # <<>>
    /\ broadcasts[1].status # "running"
    /\ readings_made < MaxReadingsMade
    /\ sensor_file' = generate_live_sensor_data(farm_file, sensor_file, now, readings_made)
    /\ readings_made' = readings_made + Len(plot_sensors(farm_file.plots))
    /\ LET call == [NoBroadcast EXCEPT !.status = "running", !.message = message_of(1),
                                       !.stayed = Range(active_connections)]
       IN  broadcasts' = [broadcasts EXCEPT
                             ![1] = broadcast_resumed(call, active_connections, sockets)]
    /\ UNCHANGED <<now, next_uuid, call_vars, farm_vars, weather_vars, sample_vars, farm_file,
                   alerts_file, alerts_made, requests, response, loop_vars, sockets,
                   active_connections>>

\* GET /api/sensors/live
GetLiveSensorData ==
    /\ readings_made < MaxReadingsMade
    /\ sensor_file' = generate_live_sensor_data(farm_file, sensor_file, now, readings_made)
    /\ readings_made' = readings_made + Len(plot_sensors(farm_file.plots))
    /\ response' = Response("get_live_sensor_data", 200,
                            [data |-> live_data_of(farm_file, now, readings_made)],
                            TRUE, FALSE)
    /\ UNCHANGED <<now, next_uuid, call_vars, service_vars, farm_vars, weather_vars, sample_vars,
                   farm_file, alerts_file, alerts_made, requests>>

\* a request_live_data message on an open websocket: the live readings are
\* generated, stored and sent to that client
RequestLiveData ==
    /\ readings_made < MaxReadingsMade
    /\ \E websocket \in Range(active_connections) : sockets[websocket] = "open"
    /\ sensor_file' = generate_live_sensor_data(farm_file, sensor_file, now, readings_made)
    /\ readings_made' = readings_made + Len(plot_sensors(farm_file.plots))
    /\ UNCHANGED <<now, next_uuid, call_vars, service_vars, farm_vars, weather_vars, sample_vars,
                   farm_file, alerts_file, alerts_made, requests, response>>

InitSockets ==
    /\ now = StartOfClock
    /\ EngineIdle
    /\ RestIdle

NextSockets == Connect \/ ClientCloses \/ Disconnect \/ BroadcastCalled \/ BroadcastResumes

SpecSockets == InitSockets /\ [][NextSockets]_vars

\* ---- the ticks of the three sources of live readings -------------------------
\* a farm of eight plots of five sensors: 40 readings a tick
TicksDraw ==
    FarmDraw(8, PlotDraw(<<500, 5>>, <<"rice", "MR220", 90>>,
                         <<EquipmentDraw("irrigation", "Drip System", "operational",
                                         60, 0, 800)>>, TRUE, TRUE),
                PlotDraw(<<500, 5>>, <<"durian", "D24", 90>>,
                         <<EquipmentDraw("irrigation", "Drip System", "operational",
                                         60, 0, 800)>>, TRUE, FALSE))

\* the service has started; two clients have come and gone, a third has not
\* connected yet
InitTicks ==
    /\ StartedFiles(TicksDraw)
    /\ random_draws = <<>>
    /\ LoopIdle
    /\ sockets = [c \in Connections |-> IF c = 1 THEN "new" ELSE "closed"]
    /\ active_connections = <<>>
    /\ broadcasts = [b \in Broadcasts |-> NoBroadcast]

NextTicks ==
    \/ RequestLiveData
    \/ UpdateSensorData
    \/ BroadcastLiveData
    \/ BroadcastResumes
    \/ GetLiveSensorData
    \/ Connect

SpecTicks == InitTicks /\ [][NextTicks]_vars

(***************************************************************************)
(* The live simulation: LiveDataService.start_live_simulation.  The time   *)
(* of day is in seconds; the calendar clock `now` does not move during a   *)
(* run of a few minutes.  update_sensor_data, update_weather_data and      *)
(* check_alerts catch their own exceptions, so the loop never takes its    *)
(* error branch.  The forecast written is the one of the last              *)
(* generate_weather_forecast call.                                         *)
(***************************************************************************)
\* datetime.now().minute
minute_of(seconds) == (seconds \div 60) % 60

\* asyncio.sleep(30) of the loop
loop_sleep_seconds == 30

\* the days of update_weather_forecast: the default of generate_weather_forecast
default_forecast_days == 7

\* the seconds a step of an iteration can take before the clock is read again
StepSeconds == {0, 1}

\* the seconds of the day at which the loop stops being followed
MaxLoopSeconds == 3900

\* self.is_running = True, before the first iteration
StartLiveSimulation ==
    /\ ~live.is_running
    /\ live.iterations = 0
    /\ live' = [live EXCEPT !.is_running = TRUE]
    /\ UNCHANGED <<now, next_uuid, call_vars, farm_vars, weather_vars, sample_vars, store_vars,
                   wall_clock, alert_checks, weather_updates, socket_vars>>

\* one iteration of `while self.is_running`: the sensor update, the weather
\* update when the minute read is 0, the alert check when the minute read is
\* a multiple of 5, and the sleep of 30 seconds
LiveIteration ==
    /\ live.is_running
    /\ wall_clock <= MaxLoopSeconds
    /\ \E sensor_step \in StepSeconds, weather_step \in StepSeconds :
          LET at_weather == wall_clock + sensor_step
              weather_due == minute_of(at_weather) = 0
              at_alerts == IF weather_due THEN at_weather + weather_step ELSE at_weather
              alerts_due == minute_of(at_alerts) % 5 = 0
              new_alerts == simulate_equipment_alerts(all_equipment_of(farm_file.plots), now,
                                                      next_uuid)
          IN  /\ sensor_file' = generate_live_sensor_data(farm_file, sensor_file, now,
                                                          readings_made)
              /\ readings_made' = readings_made + Len(plot_sensors(farm_file.plots))
              /\ forecast' = IF weather_due
                             THEN generate_weather_forecast(now, default_forecast_days)
                             ELSE forecast
              /\ weather_updates' = IF weather_due THEN Append(weather_updates, at_weather)
                                    ELSE weather_updates
              /\ alerts_file' = IF alerts_due THEN add_alerts(alerts_file, new_alerts)
                                ELSE alerts_file
              /\ alerts_made' = IF alerts_due THEN alerts_made + Len(new_alerts)
                                ELSE alerts_made
              /\ next_uuid' = IF alerts_due THEN next_uuid + Len(new_alerts) ELSE next_uuid
              /\ alert_checks' = IF alerts_due THEN Append(alert_checks, at_alerts)
                                 ELSE alert_checks
              /\ wall_clock' = at_alerts + loop_sleep_seconds
    /\ live' = [live EXCEPT !.iterations = @ + 1]
    /\ UNCHANGED <<now, call_vars, farm_vars, weather, sample_vars, farm_file, requests,
                   response, socket_vars>>

\* LiveDataService.stop_simulation
StopSimulation ==
    /\ live.is_running
    /\ live' = [live EXCEPT !.is_running = FALSE]
    /\ UNCHANGED <<now, next_uuid, call_vars, farm_vars, weather_vars, sample_vars, store_vars,
                   wall_clock, alert_checks, weather_updates, socket_vars>>

\* the times of day at which the service starts: shortly before one o'clock
StartTimes == {3570, 3599}

InitLive ==
    /\ StartedFiles(StartDraw)
    /\ random_draws = <<>>
    /\ wall_clock \in StartTimes
    /\ live = [is_running |-> FALSE, iterations |-> 0]
    /\ alert_checks = <<>>
    /\ weather_updates = <<>>
    /\ SocketIdle

NextLive == StartLiveSimulation \/ LiveIteration \/ StopSimulation

SpecLive == InitLive /\ [][NextLive]_vars

(***************************************************************************)
(* Properties.                                                             *)
(***************************************************************************)

\* C1: every month 1..12 lies in the month list of exactly one season, and
\* get_current_season returns that season (6-9 dry_season, 10-12 and 1-3
\* wet_season, 4-5 transition) without falling through to its default return.
C1_SeasonPartition ==
    season.called =>
        /\ season.month \in 1 .. 12
        /\ Cardinality(MatchingSeasons(season.month)) = 1
        /\ ~season.by_default
        /\ season.season =
              (IF season.month \in {6, 7, 8, 9} THEN "dry_season"
               ELSE IF season.month \in {10, 11, 12, 1, 2, 3} THEN "wet_season"
               ELSE "transition")

C1_Witness ==
    season.called /\ season.month = 3 /\ season.season = "wet_season"

\* C2: for each of the 6 known crop types and every window, empty or not,
\* calculate_growth_rate returns a rate r with 0.1 <= r <= 2.0.
C2_RateInRange ==
    (growth.called /\ crop_type \in KnownCrops) =>
        /\ growth.ok
        /\ RLeq(<<1, 10>>, growth.value)
        /\ RLeq(growth.value, <<2, 1>>)

\* a window so far off every band that the lower clamp is what bounds the rate
C2_Witness ==
    /\ growth.called /\ crop_type = "rubber" /\ Len(sensor_data) = 2
    /\ \A i \in DOMAIN sensor_data : sensor_data[i].temperature = 2000
    /\ growth.value = <<1, 10>>

\* C3: for the empty window calculate_growth_rate returns exactly 1.0 whatever
\* the crop type, without dividing by the window length and without raising.
C3_EmptyWindowDefault ==
    (growth.called /\ sensor_data = <<>>) =>
        growth.ok /\ growth.value = <<1, 1>> /\ ~growth.divided

C3_Witness ==
    growth.called /\ sensor_data = <<>> /\ crop_type = "rubber" /\ growth.value = <<1, 1>>

\* C4: for a non-empty window whose mean temperature, humidity, soil moisture
\* and pH and whose summed rainfall all lie in their optimal bands, the rate is
\* exactly the crop-type modifier.
InBand(total, n, lo, hi) == lo * n <= total /\ total <= hi * n

AllOptimal(w) ==
    /\ w # <<>>
    /\ InBand(SumField(w, "temperature"), Len(w), 260, 300)
    /\ InBand(SumField(w, "humidity"), Len(w), 700, 850)
    /\ InBand(SumField(w, "soil_moisture"), Len(w), 700, 900)
    /\ InBand(SumField(w, "ph_level"), Len(w), 60, 70)
    /\ InBand(SumField(w, "rainfall"), 1, 100, 300)

C4_OptimalWindowGivesModifier ==
    (growth.called /\ crop_type \in KnownCrops /\ AllOptimal(sensor_data)) =>
        /\ growth.ok
        /\ growth.value =
              (CASE crop_type = "rice"     -> <<1, 1>>
                 [] crop_type = "palm_oil" -> <<4, 5>>
                 [] crop_type = "rubber"   -> <<3, 5>>
                 [] crop_type = "durian"   -> <<6, 5>>
                 [] crop_type = "banana"   -> <<11, 10>>
                 [] crop_type = "coconut"  -> <<7, 10>>)

\* two readings at the lower ends of the bands whose rainfall only sums into its band
C4_Witness ==
    /\ growth.called /\ crop_type = "rubber" /\ AllOptimal(sensor_data)
    /\ Len(sensor_data) = 2
    /\ \A i \in DOMAIN sensor_data : sensor_data[i].rainfall = 50
    /\ growth.value = <<3, 5>>

\* the alerts of one type that a call derived for one equipment item
AlertsFor(call, e, type) ==
    SelectSeq(call.alerts, LAMBDA a : a.equipment_id = e.id /\ a.type = type)

WholeDays(t, e) == (t - e.last_maintenance) \div 2

\* C5: a call derives, for every equipment item, exactly one maintenance alert
\* when the whole days since last_maintenance exceed 60 and none otherwise; the
\* alert is high above 90 days, medium from 61 to 90, and reports days - 60.
C5_MaintenanceAlert ==
    last_call.made =>
        \A i \in DOMAIN equipment_list :
            LET e == equipment_list[i]
                d == WholeDays(last_call.time, e)
                found == AlertsFor(last_call, e, "maintenance")
            IN  IF d > 60
                THEN /\ Len(found) = 1
                     /\ found[1].severity = (IF d > 90 THEN "high" ELSE "medium")
                     /\ found[1].message = <<"Maintenance overdue by", d - 60, "days">>
                ELSE found = <<>>

C5_Witness ==
    /\ last_call.made
    /\ \E i \in DOMAIN equipment_list :
          /\ WholeDays(last_call.time, equipment_list[i]) = 91
          /\ Len(AlertsFor(last_call, equipment_list[i], "maintenance")) = 1
          /\ AlertsFor(last_call, equipment_list[i], "maintenance")[1].severity = "high"
    /\ \E i \in DOMAIN equipment_list :
          /\ WholeDays(last_call.time, equipment_list[i]) = 60
          /\ AlertsFor(last_call, equipment_list[i], "maintenance") = <<>>

\* C6: a call derives, for every equipment item whose fuel_level is present and
\* below 25 (0 included), exactly one fuel alert, high up to 15 and medium
\* above; an item whose fuel_level is absent or at least 25 gets none.
C6_FuelAlert ==
    last_call.made =>
        \A i \in DOMAIN equipment_list :
            LET e == equipment_list[i]
                found == AlertsFor(last_call, e, "fuel")
            IN  IF e.fuel_level # None /\ e.fuel_level[1] < 25
                THEN /\ Len(found) = 1
                     /\ found[1].severity =
                           (IF e.fuel_level[1] <= 15 THEN "high" ELSE "medium")
                ELSE found = <<>>

\* C7: an equipment item with at most 60 whole days since last_maintenance, a
\* fuel_level absent or at least 25 and an efficiency of at least 80 gets no
\* alert; a list of such items only, the empty list included, gets none at all.
BelowThresholds(t, e) ==
    /\ WholeDays(t, e) <= 60
    /\ (e.fuel_level = None \/ e.fuel_level[1] >= 25)
    /\ e.efficiency >= 800

C7_NoAlertBelowThresholds ==
    last_call.made =>
        /\ \A i \in DOMAIN equipment_list :
              BelowThresholds(last_call.time, equipment_list[i]) =>
                 \A k \in DOMAIN last_call.alerts :
                    last_call.alerts[k].equipment_id # equipment_list[i].id
        /\ (\A i \in DOMAIN equipment_list :
               BelowThresholds(last_call.time, equipment_list[i]))
              => last_call.alerts = <<>>

C7_Witness ==
    /\ last_call.made
    /\ Len(equipment_list) = 2
    /\ \A i \in DOMAIN equipment_list :
          /\ BelowThresholds(last_call.time, equipment_list[i])
          /\ equipment_list[i].efficiency = 800
    /\ equipment_list[1].fuel_level = Some(25)
    /\ last_call.alerts = <<>>

\* C8 as stated: two calls on the same equipment list return identical lists.
C8_IdenticalLists ==
    (prev_call.made /\ last_call.made) => prev_call.alerts = last_call.alerts

\* an alert without the two fields a call makes anew: the uuid and the clock reading
Derived(a) ==
    [type |-> a.type, severity |-> a.severity, equipment_id |-> a.equipment_id,
     equipment_name |-> a.equipment_name, message |-> a.message,
     action_required |-> a.action_required]

DerivedList(l) == [k \in DOMAIN l |-> Derived(l[k])]

\* C8 (amended): two calls on the same equipment list, made while every item's
\* whole days since last_maintenance are the same, return lists of the same
\* length that agree, position by position, in type, severity, equipment_id,
\* equipment_name, message and action_required; whatever was returned before,
\* nothing is left out as a duplicate.
C8_SameDerivedAlerts ==
    (/\ prev_call.made
     /\ last_call.made
     /\ \A i \in DOMAIN equipment_list :
           WholeDays(prev_call.time, equipment_list[i])
              = WholeDays(last_call.time, equipment_list[i]))
        => /\ Len(prev_call.alerts) = Len(last_call.alerts)
           /\ DerivedList(prev_call.alerts) = DerivedList(last_call.alerts)

\* two calls half a day apart, within the same whole day, each with three alerts
C8_Witness ==
    /\ prev_call.made /\ last_call.made
    /\ prev_call.time < last_call.time
    /\ \A i \in DOMAIN equipment_list :
          WholeDays(prev_call.time, equipment_list[i])
             = WholeDays(last_call.time, equipment_list[i])
    /\ Len(prev_call.alerts) = 3
    /\ Len(last_call.alerts) = 3
    /\ prev_call.alerts # last_call.alerts

\* C9: a record returned by generate_equipment_data has one of the four
\* statuses, and a fuel_level other than None exactly when its type is tractor
\* or harvester.
C9_EquipmentStatusAndFuel ==
    equipment.made =>
        /\ equipment.record.status \in {"operational", "maintenance", "idle", "repair"}
        /\ (equipment.record.fuel_level # None)
              <=> (equipment.record.type \in {"tractor", "harvester"})

C9_Witness ==
    /\ equipment.made
    /\ equipment.record.type = "harvester"
    /\ equipment.record.status = "repair"
    /\ equipment.record.fuel_level = Some(20)

\* C10: for each of the 6 crop types, every days-since-planted value from 10 to
\* cycle_length - 30 and a positive plot area, generate_crop_data returns a
\* record whose growth_stage is in the type's stage list, at the position
\* min(floor(days / (cycle_length / stage_count)), stage_count - 1), and whose
\* growth_progress is within 0..100 percent.
StageSet(ct) == {crop_data[ct].growth_stages[k] : k \in DOMAIN crop_data[ct].growth_stages}

C10_StageAndProgress ==
    (crop.made /\ crop.args.crop_type \in KnownCrops /\ crop.args.plot_area > 0) =>
        LET ct == crop.args.crop_type
            stages == crop_data[ct].growth_stages
            cycle == crop_data[ct].growth_cycle_days
            index == Min((crop.args.days * Len(stages)) \div cycle, Len(stages) - 1)
        IN  /\ crop.args.days \in 10 .. (cycle - 30)
            /\ crop.ok
            /\ index \in 0 .. (Len(stages) - 1)
            /\ crop.record.growth_stage = stages[index + 1]
            /\ crop.record.growth_stage \in StageSet(ct)
            /\ crop.record.growth_progress >= 0
            /\ crop.record.growth_progress <= 1000

C10_Witness ==
    /\ crop.made /\ crop.ok
    /\ crop.args.crop_type = "palm_oil"
    /\ crop.args.days = 335
    /\ crop.record.growth_stage = "old_mature"
    /\ crop.record.growth_progress = 918

(***************************************************************************)
(* C11: every farm generate_complete_farm returns has between 3 and 8      *)
(* plots, every plot area is a whole number of hundredths of a hectare     *)
(* between 0.5 and 5.0, and total_area is the exact sum of the plots'      *)
(* area fields.                                                            *)
(***************************************************************************)
RECURSIVE AreaSum(_)
AreaSum(plots) ==
    IF plots = <<>> THEN 0 ELSE plots[1].area + AreaSum(Tail(plots))

C11_PlotCountAndTotalArea ==
    (farm.made /\ farm.ok) =>
        /\ Len(farm.document.plots) \in 3 .. 8
        /\ \A i \in DOMAIN farm.document.plots :
              farm.document.plots[i].area \in 50 .. 500
        /\ farm.document.total_area = AreaSum(farm.document.plots)

\* a farm of eight plots of two different areas whose sum is no whole number
\* of hectares
C11_Witness ==
    /\ farm.made /\ farm.ok
    /\ Len(farm.document.plots) = 8
    /\ farm.document.plots[1].area # farm.document.plots[2].area
    /\ farm.document.total_area % 100 # 0

(***************************************************************************)
(* C12: generate_weather_forecast(location, N) returns exactly N entries   *)
(* for every N >= 0; entry i carries the calendar date of now + i days, so *)
(* the first entry is tomorrow and the dates are strictly increasing.      *)
(***************************************************************************)
\* the calendar date after a date <<year, month, day>>
NextDate(d) ==
    IF d[3] < MonthLengths[d[2]] THEN <<d[1], d[2], d[3] + 1>>
    ELSE IF d[2] < 12 THEN <<d[1], d[2] + 1, 1>>
    ELSE <<d[1] + 1, 1, 1>>

DateBefore(d, e) ==
    \/ d[1] < e[1]
    \/ d[1] = e[1] /\ d[2] < e[2]
    \/ d[1] = e[1] /\ d[2] = e[2] /\ d[3] < e[3]

C12_ForecastDates ==
    (forecast.made /\ forecast.days >= 0) =>
        LET entries == forecast.entries
        IN  /\ Len(entries) = forecast.days
            /\ Len(entries) >= 1 =>
                  entries[1].date = NextDate(strftime_date(forecast.called_at))
            /\ \A i \in 1 .. Len(entries) - 1 :
                  /\ entries[i + 1].date = NextDate(entries[i].date)
                  /\ DateBefore(entries[i].date, entries[i + 1].date)

\* a forecast of a week made on 28 December: it crosses the end of the year
C12_Witness ==
    /\ forecast.made
    /\ forecast.days = 7
    /\ strftime_date(forecast.called_at) = <<1, 12, 28>>
    /\ forecast.entries[7].date = <<2, 1, 4>>

(***************************************************************************)
(* C13: for every time_offset_hours, the season of the sample              *)
(* generate_weather_data returns is the season of the month of the shifted *)
(* instant (current time + time_offset_hours) reported in its time field.  *)
(***************************************************************************)
C13_SeasonOfShiftedInstant ==
    weather.made => MonthOf(weather.time) \in weather_patterns[weather.season]

(***************************************************************************)
(* C14: every operation of the engine that takes a crop type (the soil     *)
(* sample, the crop generation, the growth-rate computation, the crop      *)
(* advance) completes without failure for a crop type outside the six      *)
(* known ones and behaves as it does for rice.                             *)
(***************************************************************************)
C14_UnknownCropTypeAsRice ==
    /\ (soil.made /\ soil.args.crop_type \notin KnownCrops) =>
          soil.sample = generate_soil_data("rice", soil.args.rainfall, soil.args.season,
                                           soil.args.high_base, soil.args.high_modifier,
                                           soil.args.high_ph).sample
    /\ (crop.made /\ crop.args.crop_type \notin KnownCrops) =>
          /\ crop.ok
          /\ crop.record.growth_stage \in StageSet("rice")
    /\ (growth.called /\ crop_type \notin KnownCrops) =>
          growth = calculate_growth_rate(sensor_data, "rice")
    /\ (advanced.made /\ advanced.args.crop_data.type \notin KnownCrops) =>
          /\ advanced.ok
          /\ LET as_rice == update_crop_progress(
                                [advanced.args.crop_data EXCEPT !.type = "rice"],
                                advanced.args.growth_rate,
                                advanced.record.last_growth_update)
             IN  advanced.record =
                     [as_rice.record EXCEPT !.type = advanced.args.crop_data.type]

(***************************************************************************)
(* C19: for every generated plot, if any of its equipment has status       *)
(* repair the plot status is maintenance, also when the crop is in a       *)
(* harvest-like stage; otherwise, if the crop's growth_stage is harvest,   *)
(* maturity or ripening, the status is harvesting; otherwise the status is *)
(* active or idle.                                                         *)
(***************************************************************************)
InRepair(plot) == \E k \in DOMAIN plot.equipment : plot.equipment[k].status = "repair"
HarvestLike(plot) == plot.crop.growth_stage \in {"harvest", "maturity", "ripening"}

C19_PlotStatusDerivation ==
    (farm.made /\ farm.ok) =>
        \A i \in DOMAIN farm.document.plots :
            LET plot == farm.document.plots[i]
            IN  /\ InRepair(plot) => plot.status = "maintenance"
                /\ (~InRepair(plot) /\ HarvestLike(plot)) => plot.status = "harvesting"
                /\ (~InRepair(plot) /\ ~HarvestLike(plot)) => plot.status \in {"active", "idle"}

\* a farm with a plot in repair at a harvest-like stage next to a plot at a
\* harvest-like stage with no equipment in repair
C19_Witness ==
    /\ farm.made /\ farm.ok
    /\ InRepair(farm.document.plots[1]) /\ HarvestLike(farm.document.plots[1])
    /\ farm.document.plots[1].status = "maintenance"
    /\ ~InRepair(farm.document.plots[2]) /\ HarvestLike(farm.document.plots[2])
    /\ farm.document.plots[2].status = "harvesting"

(***************************************************************************)
(* C20: update_crop_progress sets growth_stage to the stage of the crop    *)
(* type's threshold table with the greatest day threshold that is at most  *)
(* the adjusted progress (elapsed days times growth_rate).                 *)
(***************************************************************************)
AdjustedProgress(call) == RMul(Rat(call.args.days_since_planted), call.args.growth_rate)

C20_StageOfGreatestThreshold ==
    (advanced.made /\ advanced.ok) =>
        LET table == get_stage_thresholds(advanced.args.crop_data.type)
            progress == AdjustedProgress(advanced)
        IN  \E i \in DOMAIN table :
               /\ advanced.record.growth_stage = table[i][1]
               /\ RLeq(Rat(table[i][2]), progress)
               /\ \A j \in DOMAIN table :
                     RLeq(Rat(table[j][2]), progress) => table[j][2] <= table[i][2]

\* the same statement for the crops planted no later than today
OncePlanted_StageOfGreatestThreshold ==
    (advanced.made /\ advanced.ok /\ advanced.args.days_since_planted >= 0) =>
        C20_StageOfGreatestThreshold

(***************************************************************************)
(* C15: every derived ratio is 0 instead of a failure when its divisor is  *)
(* 0: the average yield per hectare and the irrigation coverage of the     *)
(* analytics report for a farm without plots; the average yield per        *)
(* hectare, the equipment efficiency and the irrigation coverage of the    *)
(* performance analytics for a total_area of 0, no equipment and no plots; *)
(* the yield_per_hectare of a crop generated for a plot of area 0.         *)
(***************************************************************************)
C15_ZeroDivisorGivesZero ==
    /\ (response.op = "get_analytics" /\ farm_file.plots = <<>>) =>
          /\ response.code = 200
          /\ response.body.avg_yield_per_hectare = 0
          /\ response.body.irrigation_coverage = 0
    /\ response.op = "get_performance_analytics" =>
          /\ response.code = 200
          /\ farm_file.total_area = 0 => response.body.avg_yield_per_hectare = 0
          /\ farm_file.plots = <<>> =>
                /\ response.body.equipment_efficiency = 0
                /\ response.body.irrigation_coverage = 0
    /\ (crop.made /\ crop.args.crop_type \in KnownCrops /\ crop.args.plot_area = 0) =>
          /\ crop.ok
          /\ crop.record.yield_per_hectare = 0

(***************************************************************************)
(* C16: in every reachable state, after the generation of the sample data  *)
(* and after any number of live ticks in any order, the list of readings   *)
(* kept holds at most 1000 readings, and a live tick leaves the last       *)
(* min(1000, n) elements of the previous list followed by the readings of  *)
(* the tick.                                                               *)
(***************************************************************************)
LiveTick == farm_file' = farm_file /\ readings_made' # readings_made

C16_SensorRetention ==
    [][/\ Len(sensor_file') <= 1000
       /\ LiveTick =>
             sensor_file' = LastN(sensor_file \o live_data_of(farm_file, now, readings_made),
                                  1000)]_vars

\* the second half alone: what a live tick leaves
LiveTickKeepsLastThousand ==
    [][LiveTick =>
          /\ Len(sensor_file') <= 1000
          /\ sensor_file' = LastN(sensor_file \o live_data_of(farm_file, now, readings_made),
                                  1000)]_vars

(***************************************************************************)
(* C17: in every reachable state, after the generation of the sample data, *)
(* the periodic alert checks, POST /api/alerts and the simulated alerts in *)
(* any order, the alerts kept are at most 100, and adding an alert leaves  *)
(* the last min(100, n + 1) elements of the previous log followed by the   *)
(* new alert.                                                              *)
(***************************************************************************)
\* a step that adds one alert through add_alert: a posted or a simulated one
OneAlertAdded == requests' = requests + 1 /\ alerts_made' = alerts_made + 1

C17_AlertRetention ==
    [][/\ Len(alerts_file') <= 100
       /\ OneAlertAdded =>
             /\ alerts_file' # <<>>
             /\ alerts_file' =
                    LastN(Append(alerts_file, alerts_file'[Len(alerts_file')]), 100)]_vars

\* the sample data of the farm with the most alerts (96) have been written, and
\* an alert has been added to a full log: the oldest alert is gone
C17_Witness ==
    /\ Len(alerts_file) = 100
    /\ alerts_made > 100
    /\ requests > 0
    /\ alerts_file[100].id = next_uuid - 1
    /\ Len(farm_file.plots) = 8

(***************************************************************************)
(* C18: after farm generation and any sequence of regenerate-data,         *)
(* update-plot-status and toggle-irrigation requests every plot of the     *)
(* persisted farm has one of the statuses active, maintenance, harvesting  *)
(* and idle, and a status update whose status is missing or is none of     *)
(* the four is answered with 400 without the farm document having been     *)
(* read or written.                                                        *)
(***************************************************************************)
StatusesOfPlots == {farm_file.plots[k].status : k \in DOMAIN farm_file.plots}

FourStatuses == {"active", "maintenance", "harvesting", "idle"}

BadStatusUpdate(r) ==
    /\ r.op = "update_plot_status"
    /\ \/ "status" \notin DOMAIN r.request.status_data
       \/ r.request.status_data.status \notin FourStatuses

C18_PlotStatusesValid ==
    [][/\ StatusesOfPlots \subseteq FourStatuses
       /\ StatusesOfPlots' \subseteq FourStatuses
       /\ (response' # response /\ BadStatusUpdate(response')) =>
             /\ response'.code = 400
             /\ ~response'.farm_read
             /\ ~response'.farm_written
             /\ farm_file' = farm_file]_vars

\* a status outside the four was refused after an update, a toggle and a
\* regeneration had written the document
C18_Witness ==
    /\ BadStatusUpdate(response)
    /\ response.request.status_data = [status |-> "fallow"]
    /\ response.request.plot_id = farm_file.plots[1].id
    /\ random_draws = <<>>
    /\ \E k \in DOMAIN farm_file.plots :
          /\ "last_updated" \in DOMAIN farm_file.plots[k]
          /\ farm_file.plots[k].status = "idle"
    /\ {"active", "maintenance", "harvesting", "idle"} \subseteq
          StatusesOfPlots \cup {"active"}

(***************************************************************************)
(* C21: for every crop record with a well-formed planted_date (before, at  *)
(* or after the current time) and every growth_rate from 0.1 to 2.0 the    *)
(* record update_crop_progress returns has growth_progress from 0 to 100.  *)
(***************************************************************************)
RateInRange(call) ==
    RLeq(<<1, 10>>, call.args.growth_rate) /\ RLeq(call.args.growth_rate, Rat(2))

C21_GrowthProgressInRange ==
    (advanced.made /\ RateInRange(advanced)) =>
        /\ advanced.ok
        /\ RLeq(Rat(0), advanced.record.growth_progress)
        /\ RLeq(advanced.record.growth_progress, Rat(100))

\* the same statement for the crops planted no later than today
OncePlanted_GrowthProgressInRange ==
    (advanced.made /\ advanced.args.days_since_planted >= 0) => C21_GrowthProgressInRange

(***************************************************************************)
(* C22: calculate_growth_rate depends only on the last 168 entries of the  *)
(* window: for a window longer than 168 the result is the result on its    *)
(* last 168 entries, whatever the earlier entries and the timestamps are.  *)
(***************************************************************************)
Last168(w) == [i \in 1 .. 168 |-> w[Len(w) - 168 + i]]

C22_OnlyLast168Entries ==
    (growth.called /\ Len(sensor_data) > 168) =>
        growth = calculate_growth_rate(Last168(sensor_data), crop_type)

\* two entries far off every band before 168 optimal entries, older than a
\* week, whose rainfall sums to 16.8 mm
C22_Witness ==
    /\ growth.called /\ crop_type = "durian" /\ Len(sensor_data) = 170
    /\ sensor_data[1].temperature = 2000 /\ sensor_data[2].temperature = 2000
    /\ sensor_data[3].rainfall = 1 /\ sensor_data[170].rainfall = 1
    /\ sensor_data[170].timestamp < StartOfClock - 14
    /\ growth.ok /\ growth.value = <<6, 5>>

\* C23: in the live simulation loop, no two iterations within the same
\* 5-minute period both run check_alerts, and no two iterations within the
\* same hour both run update_weather_data.
SamePeriod(times, seconds) ==
    \E i, j \in DOMAIN times : i < j /\ times[i] \div seconds = times[j] \div seconds

C23_OncePerPeriod ==
    /\ ~SamePeriod(alert_checks, 300)
    /\ ~SamePeriod(weather_updates, 3600)

\* C24: every per-factor value computed by calculate_growth_rate lies in
\* [0.1, 1.0]; for the six known crop types the returned rate is at most 1.2,
\* the upper clamp 2.0 is not the binding bound, and update_crop_progress does
\* not apply the +10% yield bonus to the rate.
FactorsOfCall ==
    LET avg == avg_conditions(LastN(sensor_data, WindowSize))
    IN  [p \in DOMAIN avg |-> factor_of(avg[p].value, growth_factors[p].optimal)]

UnclampedRate ==
    RMul(RMul(weighted_sum(avg_conditions(LastN(sensor_data, WindowSize)), 1),
              <<1, total_weight(1)>>),
         <<crop_modifier(crop_type), 10>>)

C24_RateAtMostLargestModifier ==
    (growth.called /\ growth.ok /\ growth.divided /\ crop_type \in KnownCrops) =>
        /\ \A p \in DOMAIN FactorsOfCall :
              RLeq(<<1, 10>>, FactorsOfCall[p]) /\ RLeq(FactorsOfCall[p], Rat(1))
        /\ RLeq(growth.value, <<6, 5>>)
        /\ RLt(UnclampedRate, Rat(2))
        /\ growth.value = RMax(<<1, 10>>, UnclampedRate)
        /\ progress_yield_modifier(growth.value) # <<11, 10>>

\* durian in optimal conditions: the rate is exactly 1.2, not above it
C24_Witness ==
    /\ growth.called /\ growth.ok /\ growth.divided
    /\ crop_type = "durian"
    /\ \A p \in DOMAIN FactorsOfCall : FactorsOfCall[p] = Rat(1)
    /\ growth.value = <<6, 5>>
    /\ progress_yield_modifier(growth.value) = Rat(1)

\* C25: for equipment produced by generate_equipment_data and passed to
\* simulate_equipment_alerts at generation time, no derived alert has severity
\* high: maintenance alerts occur only for 61..90 days since maintenance and
\* fuel alerts only for levels 20..24, all with severity medium.
EquipmentOfAlert(alert) ==
    LET all == all_equipment_of(farm_file.plots)
    IN  all[CHOOSE i \in DOMAIN all : all[i].id = alert.equipment_id]

\* the sample data have been generated: the farm and the alerts of its equipment
SampleGenerated == random_draws = <<>> /\ alerts_made > 0

C25_NoHighAlertAtGeneration ==
    SampleGenerated =>
        \A k \in DOMAIN alerts_file :
            LET alert == alerts_file[k]
                e == EquipmentOfAlert(alert)
            IN  /\ alert.severity = "medium"
                /\ alert.type = "maintenance" =>
                      days_since(alert.timestamp, e.last_maintenance) \in 61 .. 90
                /\ alert.type = "fuel" =>
                      e.fuel_level # None /\ e.fuel_level[1] \in 20 .. 24

\* a harvester last maintained 90 days ago with 20 percent of fuel: both of
\* its alerts are of medium severity
C25_Witness ==
    /\ SampleGenerated
    /\ \E k \in DOMAIN alerts_file :
          /\ alerts_file[k].type = "maintenance"
          /\ days_since(alerts_file[k].timestamp,
                        EquipmentOfAlert(alerts_file[k]).last_maintenance) = 90
          /\ alerts_file[k].severity = "medium"
    /\ \E k \in DOMAIN alerts_file :
          /\ alerts_file[k].type = "fuel"
          /\ EquipmentOfAlert(alerts_file[k]).fuel_level = Some(20)
          /\ alerts_file[k].severity = "medium"

\* C26: a plot produced by generate_complete_farm has status harvesting only
\* if its crop type is durian or banana: a generated rice crop never reaches
\* its final stage maturity, and palm_oil, rubber and coconut have no stage
\* among harvest, maturity and ripening.
C26_HarvestingOnlyDurianBanana ==
    (farm.made /\ farm.ok) =>
        \A i \in DOMAIN farm.document.plots :
            LET plot == farm.document.plots[i]
            IN  /\ plot.status = "harvesting" => plot.crop.type \in {"durian", "banana"}
                /\ plot.crop.type = "rice" => plot.crop.growth_stage # "maturity"
                /\ plot.crop.type \in {"rice", "palm_oil", "rubber", "coconut"} =>
                      plot.crop.growth_stage \notin {"harvest", "maturity", "ripening"}

\* a rice plot planted 90 days ago, the most there can be, is in the stage
\* before maturity and not harvesting, beside a durian plot that is
C26_Witness ==
    /\ farm.made /\ farm.ok
    /\ farm.document.plots[1].crop.type = "rice"
    /\ farm.document.plots[1].crop.planted_date = now - 2 * 90
    /\ farm.document.plots[1].crop.growth_stage = "grain_filling"
    /\ farm.document.plots[1].status = "active"
    /\ farm.document.plots[2].crop.type = "durian"
    /\ farm.document.plots[2].status = "harvesting"

\* C27: a broadcast delivers its message exactly once to every connection
\* that is in the active-connection list from the start to the end of that
\* broadcast, under every interleaving with connect and disconnect of other
\* connections and with a second concurrent broadcast.
TimesSent(call, connection) ==
    Cardinality({i \in DOMAIN call.sent : call.sent[i] = connection})

C27_BroadcastExactlyOnce ==
    \A b \in Broadcasts :
        broadcasts[b].status = "done" =>
            \A connection \in broadcasts[b].stayed : TimesSent(broadcasts[b], connection) = 1

\* C28: get_sensor_data(sensor_id, limit) returns at most limit readings for
\* every limit >= 0 (including limit = 0), these being the latest stored
\* readings in stored order, all with the requested sensor_id when one is given.
ReadingsAnswered == response.op \in {"get_sensor_data", "get_all_sensor_data"}

\* the stored readings the request is about, in stored order
StoredFor(sensor_id) ==
    IF sensor_id = None THEN sensor_file
    ELSE SelectSeq(sensor_file, LAMBDA data : data.sensor_id = sensor_id[1])

LatestStored(sensor_id, limit) ==
    LET stored == StoredFor(sensor_id)
        kept == IF limit < Len(stored) THEN limit ELSE Len(stored)
    IN  [i \in 1 .. kept |-> stored[Len(stored) - kept + i]]

C28_AtMostLimitReadings ==
    ReadingsAnswered =>
        LET data == response.body.data
            request == response.request
        IN  /\ Len(data) <= request.limit
            /\ data = LatestStored(request.sensor_id, request.limit)
            /\ request.sensor_id # None =>
                  \A i \in DOMAIN data : data[i].sensor_id = request.sensor_id[1]

\* for every limit of at least 1 the claim holds
PositiveLimit_AtMostLimitReadings ==
    (ReadingsAnswered /\ response.request.limit >= 1) =>
        LET data == response.body.data
            request == response.request
        IN  /\ Len(data) <= request.limit
            /\ data = LatestStored(request.sensor_id, request.limit)
            /\ request.sensor_id # None =>
                  \A i \in DOMAIN data : data[i].sensor_id = request.sensor_id[1]

\* C29: update_plot_status and toggle_irrigation with a plot id that matches
\* no plot return False, leave the persisted farm document unchanged (no
\* write) and cause no broadcast; with a matching id they change only that
\* plot's status (respectively irrigation_status, flipped) and last_updated,
\* leaving every other plot and every other field unchanged.
PlotRequestHandled(r) ==
    \/ r.op = "toggle_irrigation"
    \/ r.op = "update_plot_status" /\ r.code # 400

\* the plot k of the document after differs from the one before in the
\* changed field and last_updated only, and nothing else of the document differs
OnlyPlotChanged(before, after, k, changed) ==
    /\ DOMAIN after = DOMAIN before
    /\ \A f \in DOMAIN before \ {"plots"} : after[f] = before[f]
    /\ Len(after.plots) = Len(before.plots)
    /\ \A i \in DOMAIN before.plots : i # k => after.plots[i] = before.plots[i]
    /\ DOMAIN after.plots[k] = DOMAIN before.plots[k] \cup {"last_updated"}
    /\ \A f \in DOMAIN before.plots[k] \ {changed, "last_updated"} :
          after.plots[k][f] = before.plots[k][f]

C29_PlotUpdatesAreLocal ==
    [][PlotRequestHandled(response') =>
          LET plot_id == response'.request.plot_id
              k == first_plot(farm_file.plots, plot_id)
          IN  IF k = 0
              THEN /\ response'.code = 404
                   /\ ~update_plot_status(farm_file, plot_id, "active", now).success
                   /\ ~toggle_irrigation(farm_file, plot_id, now).success
                   /\ ~response'.farm_written
                   /\ farm_file' = farm_file
                   /\ response'.broadcast = None
              ELSE /\ response'.code = 200
                   /\ response'.farm_written
                   /\ response'.broadcast # None
                   /\ farm_file'.plots[k].last_updated = now
                   /\ IF response'.op = "update_plot_status"
                      THEN /\ farm_file'.plots[k].status = response'.request.status_data.status
                           /\ OnlyPlotChanged(farm_file, farm_file', k, "status")
                      ELSE /\ farm_file'.plots[k].irrigation_status
                                 = ~farm_file.plots[k].irrigation_status
                           /\ OnlyPlotChanged(farm_file, farm_file', k, "irrigation_status")
    ]_vars

\* the irrigation of the second plot, which was off, has been switched on and
\* broadcast, the first plot being as generated
C29_Witness ==
    /\ response.op = "toggle_irrigation"
    /\ response.code = 200
    /\ response.farm_written
    /\ response.broadcast # None
    /\ response.request.plot_id = farm_file.plots[2].id
    /\ farm_file.plots[2].irrigation_status
    /\ farm_file.plots[2].last_updated = now
    /\ "last_updated" \notin DOMAIN farm_file.plots[1]

\* C30: no reading is lost to a read-modify-write race on the persisted
\* sensor list: with the live-simulation task, the broadcast task and request
\* handlers each running generate_live_sensor_data on the same event loop,
\* after any interleaving the stored list equals the last min(1000, n)
\* elements of the readings of all ticks concatenated in the order the ticks
\* ran.  (The serial of a reading is its place in that concatenation.)
C30_NoReadingLost ==
    LET n == readings_made
        kept == IF n < 1000 THEN n ELSE 1000
    IN  /\ Len(sensor_file) = kept
        /\ \A i \in DOMAIN sensor_file : sensor_file[i].serial = n - kept + i

\* more than 1000 readings have been made, by the request handler last, while
\* the broadcast of the broadcast task's readings was under way or done
C30_Witness ==
    /\ readings_made > 1000
    /\ response.op = "get_live_sensor_data"
    /\ sensor_file[Len(sensor_file)] = response.body.data[Len(response.body.data)]
    /\ broadcasts[1].status # "idle"
    /\ Len(sensor_file) = 1000

====
